---- MODULE Spec2Model ----
(***************************************************************************)
(* A model of abc-updater's usage-metrics pipeline.                        *)
(*                                                                         *)
(*  - the client-side metric writer (pkg/metrics/metrics.go): WriteMetric, *)
(*    WriteMetricAsync and Close over a sync.RWMutex, a sync.WaitGroup and  *)
(*    the optOut flag;                                                     *)
(*  - the collector's allow-list cache (package server, MetricsDB):        *)
(*    Update and GetAllowedMetrics over a sync.RWMutex and the apps map.   *)
(*                                                                         *)
(* The two halves share no state; each has its own next-state relation and *)
(* specification over the one tuple of variables.                          *)
(***************************************************************************)
EXTENDS Integers, Sequences, FiniteSets, TLC

(***************************************************************************)
(* Bounds of the model.                                                    *)
(***************************************************************************)
\* goroutines of the embedding application that call WriteMetric / WriteMetricAsync
NumCallers == 1
\* goroutines spawned by WriteMetricAsync that may be alive at once
NumTasks == 1
\* goroutines that call Close (each calls it once)
NumClosers == 2

Callers == 1..NumCallers
Tasks == (NumCallers + 1)..(NumCallers + NumTasks)
Procs == Callers \cup Tasks
Closers == 1..NumClosers
\* a Close called by the error handler of task t is a Close call of its own
HandlerClose(t) == NumClosers + t
AllCloses == Closers \cup {HandlerClose(t) : t \in Tasks}

\* goroutines that call MetricsDB.Update, and that may overlap
NumUpdaters == 2
\* goroutines that call MetricsDB.GetAllowedMetrics (the request handlers)
NumReaders == 1
\* longest manifest.json list (app ids may repeat in it)
MaxManifest == 2
\* longest metrics.json list
MaxMetrics == 1

\* longest string (metric name, app id) a client writes
MaxNameLen == 2
\* the width of a count in bits (the source's int64 has 64)
IntBits == 6
\* most clients New constructs for one application
MaxClients == 3

\* most entries in the metrics map of one report
MaxReqMetrics == 2
\* largest count a report carries (counts are 1..MaxCount)
MaxCount == 2
MaxObjects == 3
MaxHours == 25
MaxChecks == 2
\* 24 * time.Hour, in hours
oneDay == 24

Updaters == 1..NumUpdaters
Readers == (NumUpdaters + 1)..(NumUpdaters + NumReaders)
DBProcs == Updaters \cup Readers
\* the goroutine that drives Update in the collector: one Update at a time
Scheduler == 1

Apps == {"app1", "app2"}
MetricNames == {"a", "b"}

\* metric names a report can carry: those the definitions use and one they never use
ReqNames == MetricNames \cup {"z"}
Counts == 1..MaxCount
Versions == {"v1"}
InstallIDs == {"i1"}

SeqsUpTo(S, n) == UNION {[1..k -> S] : k \in 0..n}
\* the lists a manifest.json can hold, and those a metrics.json can hold
Manifests == SeqsUpTo(Apps, MaxManifest)
MetricLists == SeqsUpTo(MetricNames, MaxMetrics)

VARIABLES
  \* ---- metric writer (type Client) ----
  mut,            \* Client.mut: [pending, readers]; pending = a writer has announced itself
  mutW,           \* the writer-side mutex inside Client.mut (RWMutex.w): the closer holding it, or 0
  optOut,         \* Client.optOut
  asyncRunners,   \* Client.asyncRunners: the WaitGroup's counter
  hasHandler,     \* Client.errorHandler != nil
  pc,             \* position of every caller and every async task
  sent,           \* the process's current WriteMetric issued its HTTP POST
  ret,            \* result of the process's last call: "none" (running), "nil", "err"
  afterBegun,     \* the caller's call started while a Close held or awaited the lock
  afterReturned,  \* the caller's call started after some Close had returned
  child,          \* the task slot the caller's WriteMetricAsync spawns into (at most one)
  admittedBefore, \* per task: the closers not yet invoked when its WriteMetricAsync returned
  clpc,           \* position of every closer
  \* ---- allow-list cache (type MetricsDB) ----
  apps,           \* MetricsDB.apps: app id -> *AppMetrics
  appsNil,        \* MetricsDB.apps == nil (never assigned)
  dbMu,           \* MetricsDB.mu: [pending, readers]
  dbMuW,          \* the writers' mutex inside MetricsDB.mu: the updater holding it, or 0
  diffLog,        \* what the last diffApps logged: [added, removed]
  upd,            \* per updater: the locals of its Update call
  get,            \* per goroutine: the locals of its GetAllowedMetrics call
  \* ---- collector process (realMain, HandleMetric) ----
  proc,           \* realMain: "none" (no collector process), "starting", "serving", "exited"
  req,            \* per request handler: the request in hand, its log records and responses
  \* ---- one WriteMetric call in detail; New and the install id file ----
  call,           \* the locals of one WriteMetric call and of the goroutine around it
  idFile,         \* the install id file (id.json) of the application
  made,           \* the install ids of the clients New has returned, in order
  \* ---- MetricsDB at the level of the AppMetrics objects ----
  heap,           \* the AppMetrics objects, db.apps and the pointers held to them
  \* ---- version check (package updater) ----
  now,            \* the wall clock, in hours
  dataFile,       \* the local version cache (data.json) of the application
  check,          \* the goroutine running the version check, and its history
  asyncFn         \* asyncFunctionCall: context, channel, closure and output

writerVars == <<mut, mutW, optOut, asyncRunners, hasHandler, pc, sent, ret,
                afterBegun, afterReturned, child, admittedBefore, clpc>>

cacheVars == <<apps, appsNil, dbMu, dbMuW, diffLog, upd, get>>

serverVars == <<proc, req>>

clientVars == <<call, idFile, made>>

pointerVars == <<heap>>

updaterVars == <<now, dataFile, check, asyncFn>>

vars == <<writerVars, cacheVars, serverVars, clientVars, pointerVars, updaterVars>>

(***************************************************************************)
(* sync.RWMutex, as Client.mut uses it.                                    *)
(***************************************************************************)
\* variant: the shared acquisition ignores a writer that holds or awaits the lock
TryRLockOK_IgnoresWriter(m) == TRUE

\* TryRLock fails when a writer holds the lock or has announced itself
\* (readerCount < 0); it never blocks.
TryRLockOK(m) == ~m.pending

RLocked(m) == [m EXCEPT !.readers = @ + 1]
RUnlocked(m) == [m EXCEPT !.readers = @ - 1]

\* variant: Lock is granted while readers still hold the lock
LockAcquirable_IgnoresReaders(m) == TRUE

\* Lock: after the writer announced itself it waits for the active readers to leave.
LockAcquirable(m) == m.readers = 0

(***************************************************************************)
(* Client: initial state.  New returns a live client, or the no-op client  *)
(* (optOut = true) when the user opted out.                                *)
(***************************************************************************)
WriterInit ==
  /\ mut = [pending |-> FALSE, readers |-> 0]
  /\ mutW = 0
  /\ optOut \in BOOLEAN
  /\ asyncRunners = 0
  /\ hasHandler \in BOOLEAN
  /\ pc = [p \in Procs |-> IF p \in Callers THEN "idle" ELSE "free"]
  /\ sent = [p \in Procs |-> FALSE]
  /\ ret = [p \in Procs |-> "nil"]
  /\ afterBegun = [c \in Callers |-> FALSE]
  /\ afterReturned = [c \in Callers |-> FALSE]
  /\ child = [c \in Callers |-> {}]
  /\ admittedBefore = [t \in Tasks |-> {}]
  /\ clpc = [c \in AllCloses |-> "idle"]

\* A Close has begun: it holds the exclusive lock or waits for it.
CloseBegun == \E c \in Closers : clpc[c] \in {"lockWait", "locked", "wait"}
\* Some Close has returned.
CloseReturned == \E c \in Closers : clpc[c] = "returned"

\* where WriteMetric returns to with result r: the application, or the goroutine of
\* WriteMetricAsync, which goes on to
\*   if err != nil && c.errorHandler != nil { c.errorHandler(ctx, err) }
AfterWriteMetric(p, r) ==
  IF p \in Callers THEN "idle"
  ELSE IF r = "err" /\ hasHandler THEN "handler" ELSE "done"

(***************************************************************************)
(* Client.WriteMetric                                                      *)
(***************************************************************************)
\* the application calls WriteMetric
CallWriteMetric(c) ==
  /\ pc[c] = "idle"
  /\ pc' = [pc EXCEPT ![c] = "wm_try"]
  /\ sent' = [sent EXCEPT ![c] = FALSE]
  /\ ret' = [ret EXCEPT ![c] = "none"]
  /\ afterBegun' = [afterBegun EXCEPT ![c] = CloseBegun]
  /\ afterReturned' = [afterReturned EXCEPT ![c] = CloseReturned]
  /\ UNCHANGED <<mut, mutW, optOut, asyncRunners, hasHandler, child, admittedBefore,
                 clpc>>
  /\ UNCHANGED <<cacheVars, serverVars, clientVars, pointerVars, updaterVars>>
\* variant: a blocking c.mut.RLock() in place of TryRLock: the write queues behind
\* the writer instead of failing the acquisition
WMTryRLock_Blocking(p) ==
  /\ pc[p] = "wm_try"
  /\ TryRLockOK(mut)
  /\ mut' = RLocked(mut)
  /\ pc' = [pc EXCEPT ![p] = "wm_opt"]
  /\ UNCHANGED <<mutW, optOut, asyncRunners, hasHandler, sent, ret, afterBegun,
                 afterReturned, child, admittedBefore, clpc>>
  /\ UNCHANGED <<cacheVars, serverVars, clientVars, pointerVars, updaterVars>>
\* if !c.mut.TryRLock() { return nil }
WMTryRLock(p) ==
  /\ pc[p] = "wm_try"
  /\ IF TryRLockOK(mut)
       THEN /\ mut' = RLocked(mut)
            /\ pc' = [pc EXCEPT ![p] = "wm_opt"]
            /\ ret' = ret
       ELSE /\ mut' = mut
            /\ pc' = [pc EXCEPT ![p] = AfterWriteMetric(p, "nil")]
            /\ ret' = [ret EXCEPT ![p] = "nil"]
  /\ UNCHANGED <<mutW, optOut, asyncRunners, hasHandler, sent, afterBegun,
                 afterReturned, child, admittedBefore, clpc>>
  /\ UNCHANGED <<cacheVars, serverVars, clientVars, pointerVars, updaterVars>>
\* variant: the opt-out flag is not looked at
WMCheckOptOut_IgnoresOptOut(p) ==
  /\ pc[p] = "wm_opt"
  /\ mut' = mut
  /\ pc' = [pc EXCEPT ![p] = "wm_http"]
  /\ ret' = ret
  /\ sent' = [sent EXCEPT ![p] = TRUE]
  /\ UNCHANGED <<mutW, optOut, asyncRunners, hasHandler, afterBegun,
                 afterReturned, child, admittedBefore, clpc>>
  /\ UNCHANGED <<cacheVars, serverVars, clientVars, pointerVars, updaterVars>>
\* defer c.mut.RUnlock(); if c.optOut { return nil }; otherwise the request is
\* encoded and c.httpClient.Do(req) is called
WMCheckOptOut(p) ==
  /\ pc[p] = "wm_opt"
  /\ IF optOut
       THEN /\ mut' = RUnlocked(mut)
            /\ pc' = [pc EXCEPT ![p] = AfterWriteMetric(p, "nil")]
            /\ ret' = [ret EXCEPT ![p] = "nil"]
            /\ sent' = sent
       ELSE /\ mut' = mut
            /\ pc' = [pc EXCEPT ![p] = "wm_http"]
            /\ ret' = ret
            /\ sent' = [sent EXCEPT ![p] = TRUE]
  /\ UNCHANGED <<mutW, optOut, asyncRunners, hasHandler, afterBegun,
                 afterReturned, child, admittedBefore, clpc>>
  /\ UNCHANGED <<cacheVars, serverVars, clientVars, pointerVars, updaterVars>>
\* outcomes of c.httpClient.Do(req) and of the status check
HTTPOutcomes == {"ok", "transport", "status"}
\* WriteMetric's result for an outcome: an error unless the call succeeded with a 2xx status
WriteResult(o) == IF o = "ok" THEN "nil" ELSE "err"

\* the HTTP call ends; the deferred RUnlock runs as WriteMetric returns
WMHTTPDone(p) ==
  /\ pc[p] = "wm_http"
  /\ \E o \in HTTPOutcomes :
       /\ ret' = [ret EXCEPT ![p] = WriteResult(o)]
       /\ pc' = [pc EXCEPT ![p] = AfterWriteMetric(p, WriteResult(o))]
  /\ mut' = RUnlocked(mut)
  /\ UNCHANGED <<mutW, optOut, asyncRunners, hasHandler, sent, afterBegun,
                 afterReturned, child, admittedBefore, clpc>>
  /\ UNCHANGED <<cacheVars, serverVars, clientVars, pointerVars, updaterVars>>
(***************************************************************************)
(* Client.WriteMetricAsync                                                 *)
(***************************************************************************)
\* a task slot is free when no goroutine runs in it and no call is about to fill it
FreeSlot(t) == pc[t] = "free" /\ \A c \in Callers : t \notin child[c]
FirstFreeSlot == CHOOSE t \in Tasks : FreeSlot(t) /\ \A u \in Tasks : FreeSlot(u) => t <= u

\* the application calls WriteMetricAsync; its goroutine would run in the first free slot
CallWriteMetricAsync(c) ==
  /\ pc[c] = "idle"
  /\ \E t \in Tasks : FreeSlot(t)
  /\ child' = [child EXCEPT ![c] = {FirstFreeSlot}]
  /\ pc' = [pc EXCEPT ![c] = "wma_try"]
  /\ sent' = [sent EXCEPT ![c] = FALSE]
  /\ ret' = [ret EXCEPT ![c] = "none"]
  /\ afterBegun' = [afterBegun EXCEPT ![c] = CloseBegun]
  /\ afterReturned' = [afterReturned EXCEPT ![c] = CloseReturned]
  /\ UNCHANGED <<mut, mutW, optOut, asyncRunners, hasHandler, admittedBefore,
                 clpc>>
  /\ UNCHANGED <<cacheVars, serverVars, clientVars, pointerVars, updaterVars>>
\* variant: a blocking c.mut.RLock() in place of TryRLock
WMATryRLock_Blocking(c) ==
  /\ pc[c] = "wma_try"
  /\ TryRLockOK(mut)
  /\ mut' = RLocked(mut)
  /\ pc' = [pc EXCEPT ![c] = "wma_opt"]
  /\ UNCHANGED <<mutW, optOut, asyncRunners, hasHandler, sent, ret, afterBegun,
                 afterReturned, child, admittedBefore, clpc>>
  /\ UNCHANGED <<cacheVars, serverVars, clientVars, pointerVars, updaterVars>>
\* if !c.mut.TryRLock() { return }
WMATryRLock(c) ==
  /\ pc[c] = "wma_try"
  /\ IF TryRLockOK(mut)
       THEN /\ mut' = RLocked(mut)
            /\ pc' = [pc EXCEPT ![c] = "wma_opt"]
            /\ ret' = ret
            /\ child' = child
       ELSE /\ mut' = mut
            /\ pc' = [pc EXCEPT ![c] = "idle"]
            /\ ret' = [ret EXCEPT ![c] = "nil"]
            /\ child' = [child EXCEPT ![c] = {}]
  /\ UNCHANGED <<mutW, optOut, asyncRunners, hasHandler, sent, afterBegun,
                 afterReturned, admittedBefore, clpc>>
  /\ UNCHANGED <<cacheVars, serverVars, clientVars, pointerVars, updaterVars>>
\* if c.optOut { return }; c.asyncRunners.Add(1); go func() {...}()
WMAAdmit(c) ==
  /\ pc[c] = "wma_opt"
  /\ IF optOut
       THEN /\ mut' = RUnlocked(mut)
            /\ pc' = [pc EXCEPT ![c] = "idle"]
            /\ ret' = [ret EXCEPT ![c] = "nil"]
            /\ child' = [child EXCEPT ![c] = {}]
            /\ UNCHANGED <<asyncRunners, sent, admittedBefore>>
       ELSE /\ mut' = mut
            /\ asyncRunners' = asyncRunners + 1
            /\ pc' = [p \in Procs |-> IF p = c THEN "wma_ret"
                                      ELSE IF p \in child[c] THEN "go" ELSE pc[p]]
            /\ sent' = [p \in Procs |-> IF p \in child[c] THEN FALSE ELSE sent[p]]
            /\ ret' = [p \in Procs |-> IF p \in child[c] THEN "none" ELSE ret[p]]
            /\ admittedBefore' = [t \in Tasks |-> IF t \in child[c] THEN {}
                                                  ELSE admittedBefore[t]]
            /\ child' = child
  /\ UNCHANGED <<mutW, optOut, hasHandler, afterBegun, afterReturned, clpc>>
  /\ UNCHANGED <<cacheVars, serverVars, clientVars, pointerVars, updaterVars>>
\* the deferred RUnlock runs and WriteMetricAsync returns to the application
WMAReturn(c) ==
  /\ pc[c] = "wma_ret"
  /\ mut' = RUnlocked(mut)
  /\ pc' = [pc EXCEPT ![c] = "idle"]
  /\ ret' = [ret EXCEPT ![c] = "nil"]
  /\ admittedBefore' = [t \in Tasks |-> IF t \in child[c]
                                           THEN {cl \in Closers : clpc[cl] = "idle"}
                                           ELSE admittedBefore[t]]
  /\ child' = [child EXCEPT ![c] = {}]
  /\ UNCHANGED <<mutW, optOut, asyncRunners, hasHandler, sent, afterBegun,
                 afterReturned, clpc>>
  /\ UNCHANGED <<cacheVars, serverVars, clientVars, pointerVars, updaterVars>>
\* the spawned goroutine is scheduled and calls c.WriteMetric(ctx, name, count)
TaskStart(t) ==
  /\ pc[t] = "go"
  /\ pc' = [pc EXCEPT ![t] = "wm_try"]
  /\ UNCHANGED <<mut, mutW, optOut, asyncRunners, hasHandler, sent, ret, afterBegun,
                 afterReturned, child, admittedBefore, clpc>>
  /\ UNCHANGED <<cacheVars, serverVars, clientVars, pointerVars, updaterVars>>
\* c.errorHandler(ctx, err) calls c.Close() from inside the callback
HandlerCallsClose(t) ==
  /\ pc[t] = "handler"
  /\ clpc[HandlerClose(t)] = "idle"
  /\ pc' = [pc EXCEPT ![t] = "in_close"]
  /\ clpc' = [clpc EXCEPT ![HandlerClose(t)] = "lockW"]
  /\ UNCHANGED <<mut, mutW, optOut, asyncRunners, hasHandler, sent, ret, afterBegun,
                 afterReturned, child, admittedBefore>>
  /\ UNCHANGED <<cacheVars, serverVars, clientVars, pointerVars, updaterVars>>
\* the error handler returns, after the Close it called (if any) has returned
TaskHandlerReturn(t) ==
  /\ \/ pc[t] = "handler"
     \/ pc[t] = "in_close" /\ clpc[HandlerClose(t)] = "returned"
  /\ pc' = [pc EXCEPT ![t] = "done"]
  /\ UNCHANGED <<mut, mutW, optOut, asyncRunners, hasHandler, sent, ret, afterBegun,
                 afterReturned, child, admittedBefore, clpc>>
  /\ UNCHANGED <<cacheVars, serverVars, clientVars, pointerVars, updaterVars>>
\* defer c.asyncRunners.Done(): the goroutine ends
TaskDone(t) ==
  /\ pc[t] = "done"
  /\ asyncRunners' = asyncRunners - 1
  /\ pc' = [pc EXCEPT ![t] = "free"]
  /\ sent' = [sent EXCEPT ![t] = FALSE]
  /\ ret' = [ret EXCEPT ![t] = "nil"]
  /\ UNCHANGED <<mut, mutW, optOut, hasHandler, afterBegun,
                 afterReturned, child, admittedBefore, clpc>>
  /\ UNCHANGED <<cacheVars, serverVars, clientVars, pointerVars, updaterVars>>
(***************************************************************************)
(* Client.Close                                                            *)
(***************************************************************************)
\* the application calls Close
CallClose(cl) ==
  /\ clpc[cl] = "idle"
  /\ clpc' = [clpc EXCEPT ![cl] = "lockW"]
  /\ UNCHANGED <<mut, mutW, optOut, asyncRunners, hasHandler, pc, sent, ret,
                 afterBegun, afterReturned, child, admittedBefore>>
  /\ UNCHANGED <<cacheVars, serverVars, clientVars, pointerVars, updaterVars>>
\* c.mut.Lock(), first half: take the writers' mutex and announce the writer,
\* after which TryRLock fails
CloseLockAnnounce(cl) ==
  /\ clpc[cl] = "lockW"
  /\ mutW = 0
  /\ mutW' = cl
  /\ mut' = [mut EXCEPT !.pending = TRUE]
  /\ clpc' = [clpc EXCEPT ![cl] = "lockWait"]
  /\ UNCHANGED <<optOut, asyncRunners, hasHandler, pc, sent, ret,
                 afterBegun, afterReturned, child, admittedBefore>>
  /\ UNCHANGED <<cacheVars, serverVars, clientVars, pointerVars, updaterVars>>
\* c.mut.Lock(), second half: wait for the readers that hold the lock
CloseLockAcquire(cl) ==
  /\ clpc[cl] = "lockWait"
  /\ LockAcquirable(mut)
  /\ clpc' = [clpc EXCEPT ![cl] = "locked"]
  /\ UNCHANGED <<mut, mutW, optOut, asyncRunners, hasHandler, pc, sent, ret,
                 afterBegun, afterReturned, child, admittedBefore>>
  /\ UNCHANGED <<cacheVars, serverVars, clientVars, pointerVars, updaterVars>>
\* variant: Close goes on to the counter whatever c.optOut holds
CloseCheckOptOut_NoEarlyReturn(cl) ==
  /\ clpc[cl] = "locked"
  /\ clpc' = [clpc EXCEPT ![cl] = "wait"]
  /\ UNCHANGED <<mut, mutW, optOut, asyncRunners, hasHandler, pc, sent, ret,
                 afterBegun, afterReturned, child, admittedBefore>>
  /\ UNCHANGED <<cacheVars, serverVars, clientVars, pointerVars, updaterVars>>
\* defer c.mut.Unlock(); if c.optOut { return }
CloseCheckOptOut(cl) ==
  /\ clpc[cl] = "locked"
  /\ IF optOut
       THEN /\ mut' = [mut EXCEPT !.pending = FALSE]
            /\ mutW' = 0
            /\ clpc' = [clpc EXCEPT ![cl] = "returned"]
       ELSE /\ mut' = mut
            /\ mutW' = mutW
            /\ clpc' = [clpc EXCEPT ![cl] = "wait"]
  /\ UNCHANGED <<optOut, asyncRunners, hasHandler, pc, sent, ret,
                 afterBegun, afterReturned, child, admittedBefore>>
  /\ UNCHANGED <<cacheVars, serverVars, clientVars, pointerVars, updaterVars>>
\* variant: Close does not wait for the counter
WaitGroupDone_NoWait(n) == TRUE

\* c.asyncRunners.Wait() returns when the counter is zero
WaitGroupDone(n) == n = 0

\* variant: Close forgets c.optOut = true
CloseWait_KeepsOptOut(cl) ==
  /\ clpc[cl] = "wait"
  /\ WaitGroupDone(asyncRunners)
  /\ mut' = [mut EXCEPT !.pending = FALSE]
  /\ mutW' = 0
  /\ clpc' = [clpc EXCEPT ![cl] = "returned"]
  /\ UNCHANGED <<optOut, asyncRunners, hasHandler, pc, sent, ret,
                 afterBegun, afterReturned, child, admittedBefore>>
  /\ UNCHANGED <<cacheVars, serverVars, clientVars, pointerVars, updaterVars>>
\* c.asyncRunners.Wait(); c.optOut = true; the deferred Unlock runs; Close returns
CloseWait(cl) ==
  /\ clpc[cl] = "wait"
  /\ WaitGroupDone(asyncRunners)
  /\ optOut' = TRUE
  /\ mut' = [mut EXCEPT !.pending = FALSE]
  /\ mutW' = 0
  /\ clpc' = [clpc EXCEPT ![cl] = "returned"]
  /\ UNCHANGED <<asyncRunners, hasHandler, pc, sent, ret,
                 afterBegun, afterReturned, child, admittedBefore>>
  /\ UNCHANGED <<cacheVars, serverVars, clientVars, pointerVars, updaterVars>>
(***************************************************************************)
(* The metric writer's specification.                                      *)
(***************************************************************************)
\* one step of the metric writer; the allow-list cache lives in another process
WriterNext ==
  \/ \E c \in Callers : CallWriteMetric(c)
  \/ \E c \in Callers : CallWriteMetricAsync(c)
  \/ \E p \in Procs : WMTryRLock(p)
  \/ \E p \in Procs : WMCheckOptOut(p)
  \/ \E p \in Procs : WMHTTPDone(p)
  \/ \E c \in Callers : WMATryRLock(c)
  \/ \E c \in Callers : WMAAdmit(c)
  \/ \E c \in Callers : WMAReturn(c)
  \/ \E t \in Tasks : TaskStart(t)
  \/ \E t \in Tasks : TaskHandlerReturn(t)
  \/ \E t \in Tasks : TaskDone(t)
  \/ \E cl \in Closers : CallClose(cl)
  \/ \E cl \in Closers : CloseLockAnnounce(cl)
  \/ \E cl \in Closers : CloseLockAcquire(cl)
  \/ \E cl \in Closers : CloseCheckOptOut(cl)
  \/ \E cl \in Closers : CloseWait(cl)

(***************************************************************************)
(* MetricsDB: the allow-list cache.                                        *)
(***************************************************************************)
\* Go maps as functions on the set of their keys
EmptyMap == [a \in {} |-> {}]
Put(m, k, v) == [a \in (DOMAIN m) \cup {k} |-> IF a = k THEN v ELSE m[a]]
Entries(m) == {m[a] : a \in DOMAIN m}

\* the metricSet loop: the list of names becomes the set of the map's keys
MetricSet(def) == {def[i] : i \in DOMAIN def}
\* &AppMetrics{AppID: app, Allowed: metricSet}
NewAppMetrics(app, def) == [AppID |-> app, Allowed |-> MetricSet(def)]
NoAppMetrics == [AppID |-> "", Allowed |-> {}]

\* sync.RWMutex, as MetricsDB.mu uses it: RLock waits while a writer holds the
\* lock or has announced itself; Lock waits for the readers to leave
RLockOK(m) == ~m.pending

IdleUpdate ==
  [pc |-> "idle", todo |-> <<>>, newDefs |-> EmptyMap, res |-> "unused",
   before |-> [isNil |-> TRUE, apps |-> EmptyMap],
   outcome |-> [a \in Apps |-> "none"], fresh |-> EmptyMap]
IdleGet ==
  [pc |-> "idle", app |-> "app1", seen |-> EmptyMap, found |-> FALSE,
   entry |-> NoAppMetrics]

\* db := &server.MetricsDB{}
CacheInit ==
  /\ apps = EmptyMap
  /\ appsNil = TRUE
  /\ dbMu = [pending |-> FALSE, readers |-> 0]
  /\ dbMuW = 0
  /\ diffLog = [added |-> {}, removed |-> {}]
  /\ upd = [u \in Updaters |-> IdleUpdate]
  /\ get = [p \in DBProcs |-> IdleGet]

(***************************************************************************)
(* MetricsDB.GetAllowedMetrics, called by a request handler and by Update  *)
(***************************************************************************)
\* variant: the cached definition is not carried into newDefs
FallbackDone_DropsCached(r, found, entry) ==
  [r EXCEPT !.pc = "fetch", !.todo = Tail(@)]

\* Update's use of the cached definition: newDefs[app] = metrics when one was
\* found, then continue with the next app of the manifest
FallbackDone(r, found, entry) ==
  [r EXCEPT !.pc = "fetch",
            !.todo = Tail(@),
            !.newDefs = IF found THEN Put(@, Head(r.todo), entry) ELSE @]

\* GetAllowedMetrics returns (the deferred RUnlock runs)
GetReturns(p, found, entry) ==
  /\ dbMu' = [dbMu EXCEPT !.readers = @ - 1]
  /\ get' = [get EXCEPT ![p] = IF p \in Updaters THEN IdleGet
                               ELSE [IdleGet EXCEPT !.app = get[p].app,
                                                    !.found = found, !.entry = entry]]
  /\ upd' = IF p \in Updaters
              THEN [upd EXCEPT ![p] = FallbackDone(@, found, entry)]
              ELSE upd

\* a request handler calls db.GetAllowedMetrics(appID)
CallGetAllowedMetrics(p) ==
  /\ p \in Readers
  /\ get[p].pc = "idle"
  /\ \E a \in Apps : get' = [get EXCEPT ![p] = [IdleGet EXCEPT !.pc = "rlock", !.app = a]]
  /\ UNCHANGED <<apps, appsNil, dbMu, dbMuW, diffLog, upd>>
  /\ UNCHANGED <<writerVars, serverVars, clientVars, pointerVars, updaterVars>>
\* db.mu.RLock()
GetRLock(p) ==
  /\ get[p].pc = "rlock"
  /\ RLockOK(dbMu)
  /\ dbMu' = [dbMu EXCEPT !.readers = @ + 1]
  /\ get' = [get EXCEPT ![p].pc = "nilcheck"]
  /\ UNCHANGED <<apps, appsNil, dbMuW, diffLog, upd>>
  /\ UNCHANGED <<writerVars, serverVars, clientVars, pointerVars, updaterVars>>
\* if db.apps == nil { return nil, error }
GetNilCheck(p) ==
  /\ get[p].pc = "nilcheck"
  /\ IF appsNil
       THEN GetReturns(p, FALSE, NoAppMetrics)
       ELSE /\ get' = [get EXCEPT ![p].pc = "index", ![p].seen = apps]
            /\ UNCHANGED <<dbMu, upd>>
  /\ UNCHANGED <<apps, appsNil, dbMuW, diffLog>>
  /\ UNCHANGED <<writerVars, serverVars, clientVars, pointerVars, updaterVars>>
\* variant: an app that is not in the map gets an empty definition, not an error
GetIndex_Default(p) ==
  /\ get[p].pc = "index"
  /\ IF get[p].app \in DOMAIN apps
       THEN GetReturns(p, TRUE, apps[get[p].app])
       ELSE GetReturns(p, TRUE, NewAppMetrics(get[p].app, <<>>))
  /\ UNCHANGED <<apps, appsNil, dbMuW, diffLog>>
  /\ UNCHANGED <<writerVars, serverVars, clientVars, pointerVars, updaterVars>>
\* v, ok := db.apps[appID]; return v, nil or nil, error
GetIndex(p) ==
  /\ get[p].pc = "index"
  /\ IF get[p].app \in DOMAIN apps
       THEN GetReturns(p, TRUE, apps[get[p].app])
       ELSE GetReturns(p, FALSE, NoAppMetrics)
  /\ UNCHANGED <<apps, appsNil, dbMuW, diffLog>>
  /\ UNCHANGED <<writerVars, serverVars, clientVars, pointerVars, updaterVars>>
(***************************************************************************)
(* MetricsDB.Update                                                        *)
(***************************************************************************)
\* a goroutine calls db.Update(ctx, params)
CallUpdate(u) ==
  /\ upd[u].pc = "idle"
  /\ upd' = [upd EXCEPT ![u] = [IdleUpdate EXCEPT
                                  !.pc = "manifest", !.res = "none",
                                  !.before = [isNil |-> appsNil, apps |-> apps]]]
  /\ UNCHANGED <<apps, appsNil, dbMu, dbMuW, diffLog, get>>
  /\ UNCHANGED <<writerVars, serverVars, clientVars, pointerVars, updaterVars>>
\* variant: a failed manifest load installs an empty map
ManifestFails_ClearsCache(u) ==
  /\ upd' = [upd EXCEPT ![u].pc = "idle", ![u].res = "err"]
  /\ apps' = EmptyMap
  /\ appsNil' = FALSE
  /\ UNCHANGED <<dbMu, dbMuW, diffLog, get>>
  /\ UNCHANGED <<writerVars, serverVars, clientVars, pointerVars, updaterVars>>
\* getManifest fails (transport error, status other than 200, undecodable body):
\* return fmt.Errorf("could not load manifest: %w", err)
ManifestFails(u) ==
  /\ upd' = [upd EXCEPT ![u].pc = "idle", ![u].res = "err"]
  /\ UNCHANGED <<apps, appsNil, dbMu, dbMuW, diffLog, get>>
  /\ UNCHANGED <<writerVars, serverVars, clientVars, pointerVars, updaterVars>>
\* variant: newDefs starts as a copy of the cached map
ManifestLoads_KeepsOld(u, m) ==
  /\ upd' = [upd EXCEPT ![u].pc = "fetch", ![u].todo = m, ![u].newDefs = apps]
  /\ UNCHANGED <<apps, appsNil, dbMu, dbMuW, diffLog, get>>
  /\ UNCHANGED <<writerVars, serverVars, clientVars, pointerVars, updaterVars>>
\* getManifest returns the list m; newDefs := make(map[string]*AppMetrics, len(m))
ManifestLoads(u, m) ==
  /\ upd' = [upd EXCEPT ![u].pc = "fetch", ![u].todo = m, ![u].newDefs = EmptyMap]
  /\ UNCHANGED <<apps, appsNil, dbMu, dbMuW, diffLog, get>>
  /\ UNCHANGED <<writerVars, serverVars, clientVars, pointerVars, updaterVars>>
\* manifest, err := getManifest(ctx, params)
UpdateGetManifest(u) ==
  /\ upd[u].pc = "manifest"
  /\ \/ ManifestFails(u)
     \/ \E m \in Manifests : ManifestLoads(u, m)

\* what the fetches of app have come to so far in this Update
Outcome(old, this) ==
  IF old = "none" \/ old = this THEN this ELSE "mixed"

\* variant: the fetched names are added to the names the cached entry allows
FetchLoads_Merges(u, def) ==
  LET app == Head(upd[u].todo)
      old == IF app \in DOMAIN apps THEN apps[app].Allowed ELSE {}
  IN
  /\ upd' = [upd EXCEPT
               ![u].todo = Tail(@),
               ![u].newDefs = Put(@, app, [AppID |-> app,
                                           Allowed |-> MetricSet(def) \cup old]),
               ![u].outcome[app] = Outcome(@, "ok"),
               ![u].fresh = Put(@, app, def)]
  /\ UNCHANGED <<apps, appsNil, dbMu, dbMuW, diffLog, get>>
  /\ UNCHANGED <<writerVars, serverVars, clientVars, pointerVars, updaterVars>>
\* getMetricsDefinition(ctx, app, params) returns def:
\* newDefs[app] = &AppMetrics{AppID: app, Allowed: metricSet}
FetchLoads(u, def) ==
  LET app == Head(upd[u].todo) IN
  /\ upd' = [upd EXCEPT
               ![u].todo = Tail(@),
               ![u].newDefs = Put(@, app, NewAppMetrics(app, def)),
               ![u].outcome[app] = Outcome(@, "ok"),
               ![u].fresh = Put(@, app, def)]
  /\ UNCHANGED <<apps, appsNil, dbMu, dbMuW, diffLog, get>>
  /\ UNCHANGED <<writerVars, serverVars, clientVars, pointerVars, updaterVars>>
\* variant: a failed fetch of one app aborts the whole Update with an error
FetchFails_Aborts(u) ==
  LET app == Head(upd[u].todo) IN
  /\ upd' = [upd EXCEPT ![u].pc = "idle", ![u].res = "err",
                        ![u].outcome[app] = Outcome(@, "fail")]
  /\ UNCHANGED <<apps, appsNil, dbMu, dbMuW, diffLog, get>>
  /\ UNCHANGED <<writerVars, serverVars, clientVars, pointerVars, updaterVars>>
\* getMetricsDefinition fails: db.GetAllowedMetrics(app) is called for the cached
\* definition
FetchFails(u) ==
  LET app == Head(upd[u].todo) IN
  /\ upd' = [upd EXCEPT ![u].pc = "fallback", ![u].outcome[app] = Outcome(@, "fail")]
  /\ get' = [get EXCEPT ![u] = [IdleGet EXCEPT !.pc = "rlock", !.app = app]]
  /\ UNCHANGED <<apps, appsNil, dbMu, dbMuW, diffLog>>
  /\ UNCHANGED <<writerVars, serverVars, clientVars, pointerVars, updaterVars>>
\* for _, app := range manifest.MetricsApps { def, err := getMetricsDefinition(...) }
UpdateFetch(u) ==
  /\ upd[u].pc = "fetch"
  /\ upd[u].todo # <<>>
  /\ \/ \E def \in MetricLists : FetchLoads(u, def)
     \/ FetchFails(u)

\* variant: db.mu.Lock() is called before the loop over the manifest's apps
UpdateLock_BeforeFetch(u) ==
  /\ upd[u].pc = "fetch"
  /\ \/ /\ dbMuW = 0
        /\ dbMuW' = u
        /\ dbMu' = [dbMu EXCEPT !.pending = TRUE]
     \/ /\ dbMuW = u
        /\ upd[u].todo = <<>>
        /\ UNCHANGED <<dbMu, dbMuW>>
  /\ upd' = [upd EXCEPT ![u].pc = IF upd[u].todo = <<>> THEN "lockWait" ELSE "fetch"]
  /\ UNCHANGED <<apps, appsNil, diffLog, get>>
  /\ UNCHANGED <<writerVars, serverVars, clientVars, pointerVars, updaterVars>>
\* db.mu.Lock(), first half: take the writers' mutex and announce the writer
UpdateLock(u) ==
  /\ upd[u].pc = "fetch"
  /\ upd[u].todo = <<>>
  /\ dbMuW = 0
  /\ dbMuW' = u
  /\ dbMu' = [dbMu EXCEPT !.pending = TRUE]
  /\ upd' = [upd EXCEPT ![u].pc = "lockWait"]
  /\ UNCHANGED <<apps, appsNil, diffLog, get>>
  /\ UNCHANGED <<writerVars, serverVars, clientVars, pointerVars, updaterVars>>
\* diffApps: the app ids logged as loaded and as removed (a nil oldDefs is empty)
DiffApps(oldDefs, newDefs) ==
  [added |-> (DOMAIN newDefs) \ (DOMAIN oldDefs),
   removed |-> (DOMAIN oldDefs) \ (DOMAIN newDefs)]

\* variant: Lock does not wait for the readers
DBLockAcquirable_IgnoresReaders(m) == TRUE

\* Lock waits for the readers that hold the lock
DBLockAcquirable(m) == m.readers = 0

\* variant: the new definitions are written into the existing map, key by key
UpdateSwap_Merges(u) ==
  /\ upd[u].pc = "lockWait"
  /\ DBLockAcquirable(dbMu)
  /\ apps' = [a \in (DOMAIN apps) \cup (DOMAIN upd[u].newDefs) |->
                IF a \in DOMAIN upd[u].newDefs THEN upd[u].newDefs[a] ELSE apps[a]]
  /\ appsNil' = FALSE
  /\ diffLog' = DiffApps(apps, upd[u].newDefs)
  /\ dbMu' = [dbMu EXCEPT !.pending = FALSE]
  /\ dbMuW' = 0
  /\ upd' = [upd EXCEPT ![u].pc = "idle", ![u].res = "nil"]
  /\ UNCHANGED get
  /\ UNCHANGED <<writerVars, serverVars, clientVars, pointerVars, updaterVars>>
\* db.mu.Lock(), second half; oldDefs := db.apps; db.apps = newDefs;
\* diffApps(ctx, oldDefs, newDefs); the deferred Unlock; return nil
UpdateSwap(u) ==
  /\ upd[u].pc = "lockWait"
  /\ DBLockAcquirable(dbMu)
  /\ apps' = upd[u].newDefs
  /\ appsNil' = FALSE
  /\ diffLog' = DiffApps(apps, upd[u].newDefs)
  /\ dbMu' = [dbMu EXCEPT !.pending = FALSE]
  /\ dbMuW' = 0
  /\ upd' = [upd EXCEPT ![u].pc = "idle", ![u].res = "nil"]
  /\ UNCHANGED get
  /\ UNCHANGED <<writerVars, serverVars, clientVars, pointerVars, updaterVars>>
\* a goroutine calls db.Update(ctx, params) for the first time
CallUpdateOnce(u) ==
  /\ upd[u].res = "unused"
  /\ CallUpdate(u)

\* the steps of an Update in progress
UpdateStep(u) ==
  \/ UpdateGetManifest(u)
  \/ UpdateFetch(u)
  \/ GetRLock(u)
  \/ GetNilCheck(u)
  \/ GetIndex(u)
  \/ UpdateLock(u)
  \/ UpdateSwap(u)

\* the steps of a request handler's lookup
ReaderStep(p) ==
  \/ CallGetAllowedMetrics(p)
  \/ GetRLock(p)
  \/ GetNilCheck(p)
  \/ GetIndex(p)

\* the collector: the scheduler's goroutine runs one Update after the other, the
\* request handlers look up concurrently
CacheNext ==
  \/ CallUpdate(Scheduler)
  \/ UpdateStep(Scheduler)
  \/ \E p \in Readers : ReaderStep(p)

\* MetricsDB with Update calls that overlap: every updater calls Update once
CacheOverlapNext ==
  \E u \in Updaters : CallUpdateOnce(u) \/ UpdateStep(u)

\* the cache maps an Update can have installed
AppMetricsOf(a) == {NewAppMetrics(a, def) : def \in MetricLists}
CacheMaps ==
  UNION {{m \in [S -> UNION {AppMetricsOf(a) : a \in Apps}] :
            \A a \in S : m[a] \in AppMetricsOf(a)} : S \in SUBSET Apps}

\* overlapping Updates start from a cache that earlier Updates have loaded
CacheLoadedInit ==
  /\ apps \in CacheMaps
  /\ appsNil = FALSE
  /\ dbMu = [pending |-> FALSE, readers |-> 0]
  /\ dbMuW = 0
  /\ diffLog = [added |-> {}, removed |-> {}]
  /\ upd = [u \in Updaters |-> IdleUpdate]
  /\ get = [p \in DBProcs |-> IdleGet]

(***************************************************************************)
(* HandleMetric: the handler of POST /sendMetrics                          *)
(***************************************************************************)
\* SendMetricRequest.Metrics: metric name -> count
MetricMaps ==
  UNION {[S -> Counts] : S \in {T \in SUBSET ReqNames : Cardinality(T) <= MaxReqMetrics}}
\* the SendMetricRequest values a body can decode to
Reports ==
  [appId : Apps, appVersion : Versions, installID : InstallIDs, metrics : MetricMaps]
NoReport ==
  [appId |-> "", appVersion |-> "", installID |-> "", metrics |-> EmptyMap]

\* the ways DecodeRequest fails: content type, json.SyntaxError, io.ErrUnexpectedEOF,
\* json.UnmarshalTypeError, io.EOF, body over 2 MiB, any other error, trailing data
DecodeFailures ==
  {"contentType", "syntax", "truncated", "wrongType", "empty", "tooLarge", "other",
   "trailing"}
\* A request as DecodeRequest meets it.
\*   ctype: the content-type header starts with "application/json"
\*   value: how the first JSON value of the body reads
\*          "empty"     no bytes (io.EOF)
\*          "truncated" the body ends inside the value (io.ErrUnexpectedEOF)
\*          "other"     the read fails for another reason
\*          "syntax"    a byte that is not JSON (json.SyntaxError)
\*          "wrongType" a complete value that does not fit the struct
\*          "null"      the value null
\*          "report"    an object that fits SendMetricRequest
\*   tail:  what follows the first value, as far as the reader delivers it
\*          "end"       nothing
\*          "space"     only white space
\*          "closer"    white space, then ']' or '}'
\*          "data"      white space, then any other byte
\*   over:  where http.MaxBytesReader(w, r.Body, 2<<20) stops the read
\*          "no"        nowhere, the body has at most 2 MiB
\*          "value"     before the first value is complete
\*          "tail"      after the first value (or after the syntax error)
BodyForms ==
  {f \in [ctype : BOOLEAN,
          value : {"empty", "truncated", "other", "syntax", "wrongType", "null",
                   "report"},
          tail : {"end", "space", "closer", "data"},
          over : {"no", "value", "tail"}] :
     /\ f.value \in {"empty", "truncated", "other"} => f.tail = "end" /\ f.over = "no"
     /\ f.value = "syntax" => f.over # "value"
     /\ f.value \in {"syntax", "wrongType"} => f.tail = (IF f.over = "tail" THEN "data" ELSE "end")
     /\ f.over = "value" => f.tail = "end"
     /\ f.over = "tail" => f.tail # "end"}
NoForm == [ctype |-> FALSE, value |-> "empty", tail |-> "end", over |-> "no"]

\* d.Decode(&req): the decoder reads the body through the MaxBytesReader until the
\* first value is complete, then unmarshals it
DecodeFirst(f) ==
  IF f.value \in {"empty", "truncated", "other", "syntax"} THEN f.value
  ELSE IF f.over = "value" THEN "tooLarge"
  ELSE IF f.value = "wrongType" THEN "wrongType"
  ELSE "ok"

\* d.More(): c, err := d.peek(); return err == nil && c != ']' && c != '}'. peek skips
\* white space and returns the reader's error (io.EOF, or the MaxBytesReader's) when
\* nothing else is left
More(f) == f.tail = "data"

\* DecodeRequest: the content type, then Decode, then More
DecodeResult(f) ==
  IF ~f.ctype THEN "contentType"
  ELSE IF DecodeFirst(f) # "ok" THEN DecodeFirst(f)
  ELSE IF More(f) THEN "trailing"
  ELSE "ok"

\* the status DecodeRequest renders for each failure
DecodeStatus(failure) ==
  IF failure = "contentType" THEN 415
  ELSE IF failure = "tooLarge" THEN 413
  ELSE 400

\* h.RenderJSON(w, status, body)
Rendered(status, body) == [status |-> status, body |-> body]

\* the log records of the handler
HandlingRequest == [msg |-> "handling request"]
UnknownApp == [msg |-> "received metric request for unknown app"]
MetricReceived(report, name, count) ==
  [msg |-> "metric received", appID |-> report.appId,
   appVersion |-> report.appVersion, installID |-> report.installID,
   name |-> name, count |-> count]
\* variant: the warning names the metric
UnknownMetric_WithName(report, name, count) ==
  [msg |-> "received unknown metric for app", appID |-> report.appId, name |-> name]
UnknownMetric(report, name, count) ==
  [msg |-> "received unknown metric for app", appID |-> report.appId]

\* AppMetrics.MetricAllowed: m != nil && m.Allowed != nil && the name is a key
MetricAllowed(m, metric) == m # NoAppMetrics /\ metric \in m.Allowed

IdleReq ==
  [pc |-> "idle", body |-> "none", form |-> NoForm, report |-> NoReport, todo |-> {},
   log |-> <<>>, resp |-> <<>>]

\* no request is in hand
NoRequests == req = [p \in Readers |-> IdleReq]

\* variant: the handler goes on to the lookup after the decode error was rendered
HandleDecodeFails_Continues(p, form) ==
  /\ req[p].pc = "idle"
  /\ get[p].pc = "idle"
  /\ DecodeResult(form) \in DecodeFailures
  /\ req' = [req EXCEPT ![p] =
               [IdleReq EXCEPT !.pc = "lookup", !.body = DecodeResult(form),
                               !.form = form,
                               !.log = <<HandlingRequest>>,
                               !.resp = <<Rendered(DecodeStatus(DecodeResult(form)),
                                                   "error")>>]]
  /\ get' = [get EXCEPT ![p] = [IdleGet EXCEPT !.pc = "rlock", !.app = ""]]
  /\ UNCHANGED <<apps, appsNil, dbMu, dbMuW, diffLog, upd>>
  /\ UNCHANGED <<proc, writerVars, clientVars, pointerVars, updaterVars>>
\* a request arrives whose decoding fails: DecodeRequest renders the error and
\* the handler returns
HandleDecodeFails(p, form) ==
  /\ req[p].pc = "idle"
  /\ get[p].pc = "idle"
  /\ DecodeResult(form) \in DecodeFailures
  /\ req' = [req EXCEPT ![p] =
               [IdleReq EXCEPT !.body = DecodeResult(form),
                               !.form = form,
                               !.log = <<HandlingRequest>>,
                               !.resp = <<Rendered(DecodeStatus(DecodeResult(form)),
                                                   "error")>>]]
  /\ UNCHANGED <<proc, writerVars, cacheVars, clientVars, pointerVars, updaterVars>>
\* a request arrives whose body is the JSON value null: Decode sets the *T to nil
\* and DecodeRequest returns (nil, nil); metrics.AppID then dereferences nil, the
\* handler panics and net/http drops the connection without a response
HandleNullBody(p, form) ==
  /\ req[p].pc = "idle"
  /\ get[p].pc = "idle"
  /\ form.value = "null"
  /\ DecodeResult(form) = "ok"
  /\ req' = [req EXCEPT ![p] =
               [IdleReq EXCEPT !.body = "null", !.form = form,
                               !.log = <<HandlingRequest>>]]
  /\ UNCHANGED <<proc, writerVars, cacheVars, clientVars, pointerVars, updaterVars>>
\* a request arrives that decodes to report: db.GetAllowedMetrics(metrics.AppID)
\* is called
HandleDecoded(p, form, report) ==
  /\ req[p].pc = "idle"
  /\ get[p].pc = "idle"
  /\ form.value = "report"
  /\ DecodeResult(form) = "ok"
  /\ req' = [req EXCEPT ![p] =
               [IdleReq EXCEPT !.pc = "lookup", !.body = "ok", !.form = form,
                               !.report = report,
                               !.log = <<HandlingRequest>>]]
  /\ get' = [get EXCEPT ![p] = [IdleGet EXCEPT !.pc = "rlock", !.app = report.appId]]
  /\ UNCHANGED <<apps, appsNil, dbMu, dbMuW, diffLog, upd>>
  /\ UNCHANGED <<proc, writerVars, clientVars, pointerVars, updaterVars>>
\* variant: the return after the 404 is missing, the handler goes on to the loop
HandleUnknownApp_NoReturn(p) ==
  /\ req[p].pc = "lookup"
  /\ get[p].pc = "idle"
  /\ ~get[p].found
  /\ req' = [req EXCEPT ![p].pc = "loop",
                        ![p].todo = DOMAIN req[p].report.metrics,
                        ![p].resp = Append(@, Rendered(404, "error")),
                        ![p].log = Append(@, UnknownApp)]
  /\ UNCHANGED <<proc, writerVars, cacheVars, clientVars, pointerVars, updaterVars>>
\* GetAllowedMetrics returned an error: 404, a warning, return
HandleUnknownApp(p) ==
  /\ req[p].pc = "lookup"
  /\ get[p].pc = "idle"
  /\ ~get[p].found
  /\ req' = [req EXCEPT ![p].pc = "idle",
                        ![p].resp = Append(@, Rendered(404, "error")),
                        ![p].log = Append(@, UnknownApp)]
  /\ UNCHANGED <<proc, writerVars, cacheVars, clientVars, pointerVars, updaterVars>>
\* variant: the error of GetAllowedMetrics is ignored
HandleKnownApp_IgnoresError(p) ==
  /\ req[p].pc = "lookup"
  /\ get[p].pc = "idle"
  /\ req' = [req EXCEPT ![p].pc = "loop", ![p].todo = DOMAIN req[p].report.metrics]
  /\ UNCHANGED <<proc, writerVars, cacheVars, clientVars, pointerVars, updaterVars>>
\* GetAllowedMetrics returned the app's definition: range over metrics.Metrics
HandleKnownApp(p) ==
  /\ req[p].pc = "lookup"
  /\ get[p].pc = "idle"
  /\ get[p].found
  /\ req' = [req EXCEPT ![p].pc = "loop", ![p].todo = DOMAIN req[p].report.metrics]
  /\ UNCHANGED <<proc, writerVars, cacheVars, clientVars, pointerVars, updaterVars>>
\* the record the loop body logs for one entry of metrics.Metrics
LoopRecord(allowed, report, name) ==
  IF MetricAllowed(allowed, name)
    THEN MetricReceived(report, name, report.metrics[name])
    ELSE UnknownMetric(report, name, report.metrics[name])

\* variant: the loop ends at the first name that is not allowed
HandleMetricStep_BreaksOnReject(p) ==
  /\ req[p].pc = "loop"
  /\ \E name \in req[p].todo :
       req' = [req EXCEPT
                 ![p].todo = IF MetricAllowed(get[p].entry, name) THEN @ \ {name} ELSE {},
                 ![p].log = Append(@, LoopRecord(get[p].entry, req[p].report, name))]
  /\ UNCHANGED <<proc, writerVars, cacheVars, clientVars, pointerVars, updaterVars>>
\* variant: every iteration asks the cache for the app's definition again
HandleMetricStep_ReadsCache(p) ==
  LET app == req[p].report.appId
      cur == IF app \in DOMAIN apps THEN apps[app] ELSE NoAppMetrics
  IN
  /\ req[p].pc = "loop"
  /\ \E name \in req[p].todo :
       req' = [req EXCEPT ![p].todo = @ \ {name},
                          ![p].log = Append(@, LoopRecord(cur, req[p].report, name))]
  /\ UNCHANGED <<proc, writerVars, cacheVars, clientVars, pointerVars, updaterVars>>
\* one iteration of the loop over metrics.Metrics (a Go map: any order)
HandleMetricStep(p) ==
  /\ req[p].pc = "loop"
  /\ \E name \in req[p].todo :
       req' = [req EXCEPT ![p].todo = @ \ {name},
                          ![p].log = Append(@, LoopRecord(get[p].entry, req[p].report, name))]
  /\ UNCHANGED <<proc, writerVars, cacheVars, clientVars, pointerVars, updaterVars>>
\* variant: a request with a rejected metric is answered 400
HandleAccept_RejectsUnknown(p) ==
  /\ req[p].pc = "loop"
  /\ req[p].todo = {}
  /\ req' = [req EXCEPT
               ![p].pc = "idle",
               ![p].resp = Append(@,
                 IF \E n \in DOMAIN req[p].report.metrics : ~MetricAllowed(get[p].entry, n)
                   THEN Rendered(400, "error") ELSE Rendered(202, "ok"))]
  /\ UNCHANGED <<proc, writerVars, cacheVars, clientVars, pointerVars, updaterVars>>
\* after the loop: h.RenderJSON(w, http.StatusAccepted, {"message": "ok"})
HandleAccept(p) ==
  /\ req[p].pc = "loop"
  /\ req[p].todo = {}
  /\ req' = [req EXCEPT ![p].pc = "idle", ![p].resp = Append(@, Rendered(202, "ok"))]
  /\ UNCHANGED <<proc, writerVars, cacheVars, clientVars, pointerVars, updaterVars>>
\* the goroutine net/http runs HandleMetric in; requests share nothing but the
\* cache's read lock, so they are followed one at a time
Handler == NumUpdaters + 1

\* the handler serving one request after the other, over a MetricsDB that nothing
\* updates meanwhile
HandlerNext ==
  \E p \in {Handler} :
    \/ \E form \in BodyForms : HandleDecodeFails(p, form)
    \/ \E form \in BodyForms : HandleNullBody(p, form)
    \/ \E form \in BodyForms, report \in Reports : HandleDecoded(p, form, report)
    \/ GetRLock(p)
    \/ GetNilCheck(p)
    \/ GetIndex(p)
    \/ HandleUnknownApp(p)
    \/ HandleKnownApp(p)
    \/ HandleMetricStep(p)
    \/ HandleAccept(p)

\* a request body that is one report and nothing else, with the JSON content type
PlainForm == [ctype |-> TRUE, value |-> "report", tail |-> "end", over |-> "no"]

\* the handler serving requests while the scheduler's goroutine refreshes the cache
\* (one refresh is followed)
ServingNext ==
  \/ CallUpdateOnce(Scheduler)
  \/ UpdateStep(Scheduler)
  \/ \E report \in Reports : HandleDecoded(Handler, PlainForm, report)
  \/ GetRLock(Handler)
  \/ GetNilCheck(Handler)
  \/ GetIndex(Handler)
  \/ HandleUnknownApp(Handler)
  \/ HandleKnownApp(Handler)
  \/ HandleMetricStep(Handler)
  \/ HandleAccept(Handler)

\* a MetricsDB that was never loaded, or one that Updates have loaded
CacheAnyInit ==
  /\ \/ apps = EmptyMap /\ appsNil = TRUE
     \/ apps \in CacheMaps /\ appsNil = FALSE
  /\ dbMu = [pending |-> FALSE, readers |-> 0]
  /\ dbMuW = 0
  /\ diffLog = [added |-> {}, removed |-> {}]
  /\ upd = [u \in Updaters |-> IdleUpdate]
  /\ get = [p \in DBProcs |-> IdleGet]

(***************************************************************************)
(* realMain: the collector process                                         *)
(***************************************************************************)
\* db := &server.MetricsDB{}; db.Update(ctx, dbUpdateParams) is called
StartupUpdate ==
  /\ proc = "starting"
  /\ upd[Scheduler].res = "unused"
  /\ CallUpdate(Scheduler)

\* if err := db.Update(...); err != nil { return fmt.Errorf(...) }: main logs the
\* error and calls os.Exit(1); otherwise the ticker and the HTTP server start
StartupReturns ==
  /\ proc = "starting"
  /\ upd[Scheduler].pc = "idle"
  /\ upd[Scheduler].res \in {"nil", "err"}
  /\ proc' = IF upd[Scheduler].res = "err" THEN "exited" ELSE "serving"
  /\ UNCHANGED <<req, writerVars, cacheVars, clientVars, pointerVars, updaterVars>>
\* case <-ticker.C: db.Update(ctx, dbUpdateParams); an error is logged as a warning
TickUpdate ==
  /\ proc = "serving"
  /\ CallUpdate(Scheduler)

\* the HTTP server hands a report to HandleMetric, which looks its app up
ServeRequest(p) ==
  /\ proc = "serving"
  /\ CallGetAllowedMetrics(p)

\* the collector process: the startup Update, then ticks and requests
RealMainNext ==
  \/ StartupUpdate
  \/ StartupReturns
  \/ TickUpdate
  \/ UpdateStep(Scheduler)
  \/ \E p \in Readers : ServeRequest(p) \/ GetRLock(p) \/ GetNilCheck(p) \/ GetIndex(p)

(***************************************************************************)
(* encoding/json, as WriteMetric and DecodeRequest use it                  *)
(***************************************************************************)
\* what a Go string is made of: an ASCII letter, a character the encoder escapes
\* for HTML, a byte that is not valid UTF-8, and the character U+FFFD
Bytes == {"a", "<", "xFF", "uFFFD"}
Strings == SeqsUpTo(Bytes, MaxNameLen)
ValidUTF8(s) == \A i \in DOMAIN s : s[i] # "xFF"

\* the range of a count (math.MinInt64, math.MaxInt64 at the source's width)
MinInt64 == -(2^(IntBits - 1))
MaxInt64 == 2^(IntBits - 1) - 1

\* the JSON text of one element of a string: the encoder writes the escape of
\* '<', and the escape of U+FFFD for a byte that is not UTF-8
EncodeByte(b) ==
  IF b = "<" THEN "\\u003c" ELSE IF b = "xFF" THEN "\\ufffd" ELSE b
EncodeString(s) == [i \in DOMAIN s |-> EncodeByte(s[i])]

\* variant: the decoder leaves \u escapes as they are
DecodeToken_KeepsEscapes(t) == IF t = "xFF" THEN "uFFFD" ELSE t
\* the decoder resolves the escapes and replaces invalid UTF-8 by U+FFFD
DecodeToken(t) ==
  IF t = "\\u003c" THEN "<" ELSE IF t \in {"\\ufffd", "xFF"} THEN "uFFFD" ELSE t
DecodeString(e) == [i \in DOMAIN e |-> DecodeToken(e[i])]

\* an int64 as the encoder writes it: a sign and decimal digits
FormatInt(n) ==
  LET abs == IF n < 0 THEN 0 - n ELSE n
      digits[k \in 0..abs] ==
        IF k < 10 THEN <<k>> ELSE Append(digits[k \div 10], k % 10)
  IN  [neg |-> n < 0, digits |-> digits[abs]]
\* the decoder's strconv.ParseInt(s, 10, 64): the value, and whether it fits
ParseInt(e) ==
  LET value[k \in 0..Len(e.digits)] ==
        IF k = 0 THEN 0 ELSE 10 * value[k - 1] + e.digits[k]
      v == IF e.neg THEN 0 - value[Len(e.digits)] ELSE value[Len(e.digits)]
  IN  [ok |-> v >= MinInt64 /\ v <= MaxInt64, value |-> v]

\* the values New puts into a Client, and the arguments of WriteMetric
AppIDStrings == {<<"a">>, <<"xFF">>}
VersionStrings == {<<"a">>}
InstallIDStrings == {<<"a">>}
WriteCounts == {MinInt64, 0 - 1, 0, 1, MaxInt64}

\* &SendMetricRequest{AppID: c.appID, AppVersion: c.appVersion,
\*                    Metrics: map[string]int64{name: count}, InstallID: c.installID}
ClientReport(appID, version, installID, name, count) ==
  [appId |-> appID, appVersion |-> version, installID |-> installID,
   metrics |-> (name :> count)]
ClientReports ==
  {ClientReport(a, v, i, n, c) :
     a \in AppIDStrings, v \in VersionStrings, i \in InstallIDStrings,
     n \in Strings, c \in WriteCounts}
NoClientReport ==
  [appId |-> <<>>, appVersion |-> <<>>, installID |-> <<>>, metrics |-> EmptyMap]

\* json.NewEncoder(&buf).Encode(&SendMetricRequest{...}): an object with the keys
\* of the struct tags
EncodeRequest(r) ==
  [appId |-> EncodeString(r.appId),
   appVersion |-> EncodeString(r.appVersion),
   metrics |-> {[key |-> EncodeString(n), value |-> FormatInt(r.metrics[n])] :
                  n \in DOMAIN r.metrics},
   installId |-> EncodeString(r.installID)]
NoBody == [appId |-> <<>>, appVersion |-> <<>>, metrics |-> {}, installId |-> <<>>]

\* DecodeRequest[SendMetricRequest] on the collector: the object's members go to
\* the fields with the same tags
DecodeBody(b) ==
  LET names == {DecodeString(m.key) : m \in b.metrics}
      member(n) == CHOOSE m \in b.metrics : DecodeString(m.key) = n
  IN  [done |-> TRUE,
       ok |-> \A m \in b.metrics : ParseInt(m.value).ok,
       report |-> [appId |-> DecodeString(b.appId),
                   appVersion |-> DecodeString(b.appVersion),
                   installID |-> DecodeString(b.installId),
                   metrics |-> [n \in names |-> ParseInt(member(n).value).value]]]
NoDecoded == [done |-> FALSE, ok |-> FALSE, report |-> NoClientReport]

(***************************************************************************)
(* Client.WriteMetric, one call step by step                               *)
(***************************************************************************)
\* statuses and body lengths of the collector's (or anyone's) response
Statuses == {199, 200, 299, 300}
maxErrorResponseBytes == 2048
BodyLens == {maxErrorResponseBytes, maxErrorResponseBytes + 1}
\* what c.httpClient.Do(req) returns: an error, or a response whose body can be
\* read or not
Replies ==
  {[kind |-> "transport", status |-> 0, bodyLen |-> 0, readable |-> FALSE]}
    \cup [kind : {"response"}, status : Statuses, bodyLen : BodyLens,
          readable : BOOLEAN]
NoReply == [kind |-> "none", status |-> 0, bodyLen |-> 0, readable |-> FALSE]

\* the errors WriteMetric returns
NilErr == [kind |-> "nil", status |-> 0, bytes |-> 0]
TransportErr == [kind |-> "transport", status |-> 0, bytes |-> 0]
StatusErr(status, bytes) == [kind |-> "status", status |-> status, bytes |-> bytes]

\* variant: redirects count as success
StatusIsError_From400(status) == status >= 400 \/ status <= 199
\* resp.StatusCode >= 300 || resp.StatusCode <= 199
StatusIsError(status) == status >= 300 \/ status <= 199

\* io.ReadAll(io.LimitReader(resp.Body, maxErrorResponseBytes)): how many bytes
LimitRead(bodyLen) ==
  IF bodyLen < maxErrorResponseBytes THEN bodyLen ELSE maxErrorResponseBytes

\* WriteMetric's result for what Do returned
ResponseError(reply) ==
  IF reply.kind = "transport" THEN TransportErr
  ELSE IF StatusIsError(reply.status)
    THEN IF reply.readable THEN StatusErr(reply.status, LimitRead(reply.bodyLen))
         ELSE StatusErr(reply.status, 0)
  ELSE NilErr

IdleCall ==
  [pc |-> "idle", async |-> FALSE, report |-> NoClientReport, body |-> NoBody,
   decoded |-> NoDecoded, posts |-> 0, ctx |-> "live", reply |-> NoReply,
   err |-> NilErr, handled |-> <<>>]

\* variant: the handler is called whatever WriteMetric returned
AfterCall_AnyResult(async, err) ==
  IF ~async THEN "over"
  ELSE IF hasHandler THEN "handler" ELSE "done"

\* where the call continues once WriteMetric returned err: the application, or the
\* goroutine of WriteMetricAsync with its
\*   if err != nil && c.errorHandler != nil { c.errorHandler(ctx, err) }
AfterCall(async, err) ==
  IF ~async THEN "over"
  ELSE IF err # NilErr /\ hasHandler THEN "handler" ELSE "done"

\* the application calls WriteMetric(ctx, name, count), or the goroutine of an
\* admitted WriteMetricAsync does (admitted: optOut was false, c.asyncRunners.Add(1)
\* was done, and Close sets optOut only once the goroutine has ended)
CallBegin(async, report) ==
  /\ call.pc = "idle"
  /\ async => ~optOut
  /\ call' = [IdleCall EXCEPT !.pc = "try", !.async = async, !.report = report]
  /\ asyncRunners' = IF async THEN asyncRunners + 1 ELSE asyncRunners
  /\ UNCHANGED <<mut, mutW, optOut, hasHandler, pc, sent, ret, afterBegun,
                 afterReturned, child, admittedBefore, clpc>>
  /\ UNCHANGED <<idFile, made, cacheVars, serverVars, pointerVars, updaterVars>>
\* if !c.mut.TryRLock() { return nil }
CallTryRLock ==
  /\ call.pc = "try"
  /\ IF TryRLockOK(mut)
       THEN /\ mut' = RLocked(mut)
            /\ call' = [call EXCEPT !.pc = "opt"]
       ELSE /\ mut' = mut
            /\ call' = [call EXCEPT !.pc = AfterCall(call.async, NilErr)]
  /\ UNCHANGED <<mutW, optOut, asyncRunners, hasHandler, pc, sent, ret, afterBegun,
                 afterReturned, child, admittedBefore, clpc>>
  /\ UNCHANGED <<idFile, made, cacheVars, serverVars, pointerVars, updaterVars>>
\* defer c.mut.RUnlock(); if c.optOut { return nil }
CallCheckOptOut ==
  /\ call.pc = "opt"
  /\ IF optOut
       THEN /\ mut' = RUnlocked(mut)
            /\ call' = [call EXCEPT !.pc = AfterCall(call.async, NilErr)]
       ELSE /\ mut' = mut
            /\ call' = [call EXCEPT !.pc = "post"]
  /\ UNCHANGED <<mutW, optOut, asyncRunners, hasHandler, pc, sent, ret, afterBegun,
                 afterReturned, child, admittedBefore, clpc>>
  /\ UNCHANGED <<idFile, made, cacheVars, serverVars, pointerVars, updaterVars>>
\* the request is encoded, http.NewRequestWithContext(ctx, POST, ...) wraps it
\* and c.httpClient.Do(req) is called
CallPost ==
  /\ call.pc = "post"
  /\ call' = [call EXCEPT !.pc = "flight", !.body = EncodeRequest(call.report),
                          !.posts = @ + 1]
  /\ UNCHANGED <<writerVars, idFile, made, cacheVars, serverVars, pointerVars, updaterVars>>
\* the collector's handler decodes the body it received
CollectorDecodes ==
  /\ call.pc = "flight"
  /\ call.ctx = "live"
  /\ ~call.decoded.done
  /\ call' = [call EXCEPT !.decoded = DecodeBody(call.body)]
  /\ UNCHANGED <<writerVars, idFile, made, cacheVars, serverVars, pointerVars, updaterVars>>
\* the caller's context is cancelled or its deadline passes (the context of the
\* request derives from it: context.WithTimeout(ctx, 5*time.Second))
CtxDone ==
  /\ call.pc \in {"try", "opt", "post", "flight"}
  /\ call.ctx = "live"
  /\ call' = [call EXCEPT !.ctx = "done"]
  /\ UNCHANGED <<writerVars, idFile, made, cacheVars, serverVars, pointerVars, updaterVars>>
\* variant: the request is made without the context (http.NewRequest)
DoReturns_Unbound(ctx, reply) == TRUE
\* what Do may return: once the request's context is done, its error
DoReturns(ctx, reply) == ctx = "done" => reply.kind = "transport"

\* Do returns, WriteMetric makes its result of it and returns (the deferred
\* cancel, Body.Close and RUnlock run)
CallHTTPDone ==
  /\ call.pc = "flight"
  /\ \E reply \in Replies :
       /\ DoReturns(call.ctx, reply)
       /\ call' = [call EXCEPT !.reply = reply, !.err = ResponseError(reply),
                               !.pc = AfterCall(call.async, ResponseError(reply))]
  /\ mut' = RUnlocked(mut)
  /\ UNCHANGED <<mutW, optOut, asyncRunners, hasHandler, pc, sent, ret, afterBegun,
                 afterReturned, child, admittedBefore, clpc>>
  /\ UNCHANGED <<idFile, made, cacheVars, serverVars, pointerVars, updaterVars>>
\* c.errorHandler(ctx, err) is called and returns
CallHandler ==
  /\ call.pc = "handler"
  /\ call' = [call EXCEPT !.pc = "done", !.handled = Append(@, call.err)]
  /\ UNCHANGED <<writerVars, idFile, made, cacheVars, serverVars, pointerVars, updaterVars>>
\* defer c.asyncRunners.Done(): the goroutine ends
CallTaskDone ==
  /\ call.pc = "done"
  /\ call' = [call EXCEPT !.pc = "over"]
  /\ asyncRunners' = asyncRunners - 1
  /\ UNCHANGED <<mut, mutW, optOut, hasHandler, pc, sent, ret, afterBegun,
                 afterReturned, child, admittedBefore, clpc>>
  /\ UNCHANGED <<idFile, made, cacheVars, serverVars, pointerVars, updaterVars>>
\* the steps of a call that has begun
CallStep ==
  \/ CallTryRLock
  \/ CallCheckOptOut
  \/ CallPost
  \/ CallHTTPDone
  \/ CallHandler
  \/ CallTaskDone

\* one write of any report, sync or async, from its call to its end
WriteCallNext ==
  \/ \E async \in BOOLEAN, report \in ClientReports : CallBegin(async, report)
  \/ CallTryRLock
  \/ CallCheckOptOut
  \/ CallPost
  \/ CollectorDecodes
  \/ CtxDone
  \/ CallHTTPDone
  \/ CallHandler
  \/ CallTaskDone

(***************************************************************************)
(* New and the install id                                                  *)
(***************************************************************************)
\* the ids generateInstallID can return (8 random bytes, base64-encoded)
GeneratedIDs == {"g1", "g2", "g3"}

\* id.json: absent, not JSON, or a JSON object whose installId is id
NoFile == [state |-> "absent", installId |-> ""]
CorruptFile == [state |-> "corrupt", installId |-> ""]
JSONFile(id) == [state |-> "json", installId |-> id]
IDFiles == {NoFile, CorruptFile} \cup {JSONFile(id) : id \in GeneratedIDs \cup {""}}

\* len(id) > 0
validInstallID(id) == id # ""

\* loadInstallID: the stored id, or an error when the file cannot be opened or
\* decoded or its id is not valid
loadInstallID(f) ==
  IF f.state = "json" /\ validInstallID(f.installId)
    THEN [err |-> FALSE, id |-> f.installId]
    ELSE [err |-> TRUE, id |-> ""]

\* storeInstallID: localstore.StoreJSONFile replaces the file (renameio.WriteFile),
\* or fails (MkdirAll, WriteFile) and leaves it as it was
storeInstallID(f, id, ok) == IF ok THEN JSONFile(id) ELSE f

\* New(ctx, appID, version, opt...) for a user who has not opted out.
\*   early:  New returns before it looks at the file (empty appID, envconfig or
\*           server URL error): no client
\*   gen:    what generateInstallID returns, "" for its error
\*   stored: whether storeInstallID succeeds; its error is only logged
New(early, gen, stored) ==
  /\ Len(made) < MaxClients
  /\ IF early
       THEN UNCHANGED <<idFile, made>>
       ELSE LET loaded == loadInstallID(idFile)
            IN  IF ~loaded.err
                  THEN /\ made' = Append(made, loaded.id)
                       /\ idFile' = idFile
                  ELSE IF gen = ""
                    THEN UNCHANGED <<idFile, made>>
                    ELSE /\ idFile' = storeInstallID(idFile, gen, stored)
                         /\ made' = Append(made, gen)
  /\ UNCHANGED <<call, writerVars, cacheVars, serverVars, pointerVars, updaterVars>>
\* the application's processes construct one client after the other
NewNext ==
  \E early \in BOOLEAN, gen \in GeneratedIDs \cup {""}, stored \in BOOLEAN :
    New(early, gen, stored)

(***************************************************************************)
(* MetricsDB at the level of the AppMetrics objects: an address is an      *)
(* index into heap.obj, db.apps and newDefs map app ids to addresses.      *)
(***************************************************************************)
NoHeld == [addr |-> 0, app |-> "", seen |-> NoAppMetrics]
\* db := &server.MetricsDB{}: no object, a nil map, no Update, no pointer held
EmptyHeap ==
  [obj |-> <<>>, apps |-> EmptyMap, pc |-> "idle", todo |-> <<>>,
   newDefs |-> EmptyMap, held |-> NoHeld]

\* Update: getManifest returns the list m; newDefs := make(map[string]*AppMetrics)
PtrUpdate(m) ==
  /\ heap.pc = "idle"
  /\ heap' = [heap EXCEPT !.pc = "fetch", !.todo = m, !.newDefs = EmptyMap]
  /\ UNCHANGED <<writerVars, cacheVars, serverVars, clientVars, updaterVars>>

\* variant: the fetched names are written into the AppMetrics the cache holds
PtrFetchLoads_InPlace(def) ==
  LET app == Head(heap.todo) IN
  /\ heap.pc = "fetch"
  /\ heap.todo # <<>>
  /\ Len(heap.obj) < MaxObjects
  /\ heap' = IF app \in DOMAIN heap.apps
               THEN [heap EXCEPT !.obj[heap.apps[app]] = NewAppMetrics(app, def),
                                 !.newDefs = Put(@, app, heap.apps[app]),
                                 !.todo = Tail(@)]
               ELSE [heap EXCEPT !.obj = Append(@, NewAppMetrics(app, def)),
                                 !.newDefs = Put(@, app, Len(heap.obj) + 1),
                                 !.todo = Tail(@)]
  /\ UNCHANGED <<writerVars, cacheVars, serverVars, clientVars, updaterVars>>

\* getMetricsDefinition returns def: metricSet is a new map, and
\* newDefs[app] = &AppMetrics{AppID: app, Allowed: metricSet} a new object
PtrFetchLoads(def) ==
  LET app == Head(heap.todo) IN
  /\ heap.pc = "fetch"
  /\ heap.todo # <<>>
  /\ Len(heap.obj) < MaxObjects
  /\ heap' = [heap EXCEPT !.obj = Append(@, NewAppMetrics(app, def)),
                          !.newDefs = Put(@, app, Len(heap.obj) + 1),
                          !.todo = Tail(@)]
  /\ UNCHANGED <<writerVars, cacheVars, serverVars, clientVars, updaterVars>>

\* getMetricsDefinition fails: newDefs[app] = metrics, the pointer that
\* db.GetAllowedMetrics(app) returned, when the app is cached
PtrFetchFails ==
  LET app == Head(heap.todo) IN
  /\ heap.pc = "fetch"
  /\ heap.todo # <<>>
  /\ heap' = [heap EXCEPT !.newDefs = IF app \in DOMAIN heap.apps
                                        THEN Put(@, app, heap.apps[app]) ELSE @,
                          !.todo = Tail(@)]
  /\ UNCHANGED <<writerVars, cacheVars, serverVars, clientVars, updaterVars>>

\* db.mu.Lock(); db.apps = newDefs; return nil
PtrSwap ==
  /\ heap.pc = "fetch"
  /\ heap.todo = <<>>
  /\ heap' = [heap EXCEPT !.pc = "idle", !.apps = heap.newDefs]
  /\ UNCHANGED <<writerVars, cacheVars, serverVars, clientVars, updaterVars>>

\* a handler calls db.GetAllowedMetrics(a) for a cached app and keeps the pointer;
\* seen is the object as it was when the pointer was returned
PtrGetAllowedMetrics(a) ==
  /\ a \in DOMAIN heap.apps
  /\ heap' = [heap EXCEPT !.held = [addr |-> heap.apps[a], app |-> a,
                                    seen |-> heap.obj[heap.apps[a]]]]
  /\ UNCHANGED <<writerVars, cacheVars, serverVars, clientVars, updaterVars>>

\* one Update after the other, and a handler that looks an app up now and then
PointerNext ==
  \/ \E m \in Manifests : PtrUpdate(m)
  \/ \E def \in MetricLists : PtrFetchLoads(def)
  \/ PtrFetchFails
  \/ PtrSwap
  \/ \E a \in Apps : PtrGetAllowedMetrics(a)

(***************************************************************************)
(* Package updater: the version check and asyncFunctionCall.               *)
(***************************************************************************)
\* the local version cache: no file, a file that does not decode, or
\* LocalVersionData{LastCheckTimestamp: t}
NoData == [kind |-> "missing", LastCheckTimestamp |-> 0]
CorruptData == [kind |-> "corrupt", LastCheckTimestamp |-> 0]
Data(t) == [kind |-> "data", LastCheckTimestamp |-> t]

\* loadLocalCachedData: localstore.LoadJSONFile into a LocalVersionData
loadLocalCachedData(f) ==
  IF f.kind = "data" THEN [err |-> FALSE, data |-> f] ELSE [err |-> TRUE, data |-> NoData]

\* fetchNewData := true; if err == nil && cachedData != nil {
\*   fetchNewData = oneDayAgo.Unix() >= cachedData.LastCheckTimestamp }
fetchNewData(f, t) ==
  LET cached == loadLocalCachedData(f)
  IN  IF ~cached.err THEN t - oneDay >= cached.data.LastCheckTimestamp ELSE TRUE

\* setLocalCachedData: localstore.StoreJSONFile, which can fail
setLocalCachedData(f, t, ok) == IF ok THEN Data(t) ELSE f

\* what the version check returns: (message, error)
Notification == "update available"
NoReturn == [msg |-> "", err |-> FALSE, fetched |-> FALSE]
\* the parameters and environment of one check: all updates ignored, the server
\* URL and the version parse, the server's version is newer and not ignored
CheckParams == [ignoreAll : BOOLEAN, valid : BOOLEAN, outdated : BOOLEAN]
IdleCheck ==
  [pc |-> "idle", params |-> [ignoreAll |-> FALSE, valid |-> TRUE, outdated |-> FALSE],
   ret |-> NoReturn, requests |-> 0, lastOk |-> -1, runs |-> 0]
IdleAsync ==
  [ctxDone |-> FALSE, ch |-> <<>>, closed |-> FALSE, closure |-> "none",
   doneAtRun |-> FALSE, outs |-> <<>>]

\* the goroutine of asyncFunctionCall after funcToCall returned: an error is
\* logged, a message is sent to updatesCh; the deferred close(updatesCh) runs
FuncReturned(a, msg, err) ==
  [a EXCEPT !.ch = IF err THEN <<>> ELSE <<msg>>, !.closed = TRUE]

\* time passes between the runs of the check (a check takes seconds)
Tick ==
  /\ check.pc = "idle"
  /\ now < MaxHours
  /\ now' = now + 1
  /\ UNCHANGED <<dataFile, check, asyncFn>>
  /\ UNCHANGED <<writerVars, cacheVars, serverVars, clientVars, pointerVars>>

\* the application starts and calls asyncFunctionCall(ctx, funcToCall, outFunc)
\* with the version check as funcToCall: the goroutine is started
CallAsyncFunctionCall(params) ==
  /\ check.pc = "idle"
  /\ check.runs < MaxChecks
  /\ check.runs > 0 => asyncFn.closure = "returned"
  /\ check' = [check EXCEPT !.pc = "start", !.params = params, !.ret = NoReturn,
                            !.requests = 0, !.runs = @ + 1]
  /\ asyncFn' = IdleAsync
  /\ UNCHANGED <<now, dataFile>>
  /\ UNCHANGED <<writerVars, cacheVars, serverVars, clientVars, pointerVars>>

\* CheckAppVersion up to the request: the opt out, the local cache, the URL and
\* the version
CheckBegin ==
  /\ check.pc = "start"
  /\ IF check.params.ignoreAll \/ ~fetchNewData(dataFile, now)
       THEN /\ check' = [check EXCEPT !.pc = "idle", !.ret = NoReturn]
            /\ asyncFn' = FuncReturned(asyncFn, "", FALSE)
       ELSE IF ~check.params.valid
         THEN /\ check' = [check EXCEPT !.pc = "idle", !.ret.err = TRUE]
              /\ asyncFn' = FuncReturned(asyncFn, "", TRUE)
         ELSE /\ check' = [check EXCEPT !.pc = "do", !.requests = @ + 1]
              /\ asyncFn' = asyncFn
  /\ UNCHANGED <<now, dataFile>>
  /\ UNCHANGED <<writerVars, cacheVars, serverVars, clientVars, pointerVars>>

\* what client.Do and the decoding of the response come to
FetchOutcomes == {"transport", "status", "undecodable", "ok"}

\* client.Do(req) and the rest of CheckAppVersion: a failed request, a status
\* other than 200 and an undecodable body are errors; otherwise the time is
\* stored (the error of setLocalCachedData is dropped) and the message returned
CheckDo(outcome, stored) ==
  /\ check.pc = "do"
  /\ asyncFn.ctxDone => outcome = "transport"
  /\ IF outcome = "ok"
       THEN LET msg == IF check.params.outdated THEN Notification ELSE "" IN
            /\ dataFile' = setLocalCachedData(dataFile, now, stored)
            /\ check' = [check EXCEPT !.pc = "idle", !.lastOk = now,
                                      !.ret = [msg |-> msg, err |-> FALSE,
                                               fetched |-> TRUE]]
            /\ asyncFn' = FuncReturned(asyncFn, msg, FALSE)
       ELSE /\ dataFile' = dataFile
            /\ check' = [check EXCEPT !.pc = "idle", !.ret.err = TRUE]
            /\ asyncFn' = FuncReturned(asyncFn, "", TRUE)
  /\ UNCHANGED now
  /\ UNCHANGED <<writerVars, cacheVars, serverVars, clientVars, pointerVars>>

\* the context is cancelled, or its deadline passes
CtxCancel ==
  /\ check.runs > 0
  /\ asyncFn.closure # "returned"
  /\ ~asyncFn.ctxDone
  /\ asyncFn' = [asyncFn EXCEPT !.ctxDone = TRUE]
  /\ UNCHANGED <<now, dataFile, check>>
  /\ UNCHANGED <<writerVars, cacheVars, serverVars, clientVars, pointerVars>>

\* the application runs the closure asyncFunctionCall returned
ClosureRun ==
  /\ check.runs > 0
  /\ asyncFn.closure = "none"
  /\ asyncFn' = [asyncFn EXCEPT !.closure = "select", !.doneAtRun = asyncFn.ctxDone]
  /\ UNCHANGED <<now, dataFile, check>>
  /\ UNCHANGED <<writerVars, cacheVars, serverVars, clientVars, pointerVars>>

\* select { case <-ctx.Done(): ; case msg, ok := <-updatesCh: if ok &&
\* len(msg) > 0 { outFunc(msg) } }: when both cases are ready, either is taken
ClosureSelect ==
  /\ asyncFn.closure = "select"
  /\ \/ /\ asyncFn.ctxDone
        /\ asyncFn' = [asyncFn EXCEPT !.closure = "returned"]
     \/ /\ asyncFn.closed
        /\ LET ok == asyncFn.ch # <<>> IN
           asyncFn' = [asyncFn EXCEPT
                       !.closure = "returned",
                       !.ch = <<>>,
                       !.outs = IF ok /\ Head(asyncFn.ch) # ""
                                  THEN Append(@, Head(asyncFn.ch)) ELSE @]
  /\ UNCHANGED <<now, dataFile, check>>
  /\ UNCHANGED <<writerVars, cacheVars, serverVars, clientVars, pointerVars>>

\* the runs of an application that checks its version through asyncFunctionCall
UpdaterNext ==
  \/ Tick
  \/ \E params \in CheckParams : CallAsyncFunctionCall(params)
  \/ CheckBegin
  \/ \E outcome \in FetchOutcomes, stored \in BOOLEAN : CheckDo(outcome, stored)
  \/ CtxCancel
  \/ ClosureRun
  \/ ClosureSelect

\* no object-level cache and no version check is followed
NoPointers == heap = EmptyHeap
NoUpdater == now = 0 /\ dataFile = NoData /\ check = IdleCheck /\ asyncFn = IdleAsync

\* any id file the application may start with, and no client yet
NewInit ==
  /\ WriterInit /\ optOut /\ ~hasHandler
  /\ CacheInit
  /\ proc = "none"
  /\ NoRequests
  /\ call = IdleCall
  /\ idFile \in IDFiles
  /\ made = <<>>
  /\ NoPointers
  /\ NoUpdater

\* no write call and no New is followed
NoClient == call = IdleCall /\ idFile = NoFile /\ made = <<>>
\* none of the library's other parts is followed
NoLibrary == NoPointers /\ NoUpdater

\* a client as New returned it (opted out or not, with or without an error
\* handler), alone or with a Close that has announced itself and waits
WriteCallInit ==
  /\ \E closing \in BOOLEAN :
       /\ mut = [pending |-> closing, readers |-> 0]
       /\ mutW = (IF closing THEN 1 ELSE 0)
       /\ clpc = [c \in AllCloses |-> IF closing /\ c = 1 THEN "lockWait" ELSE "idle"]
  /\ optOut \in BOOLEAN
  /\ asyncRunners = 0
  /\ hasHandler \in BOOLEAN
  /\ pc = [p \in Procs |-> IF p \in Callers THEN "idle" ELSE "free"]
  /\ sent = [p \in Procs |-> FALSE]
  /\ ret = [p \in Procs |-> "nil"]
  /\ afterBegun = [c \in Callers |-> FALSE]
  /\ afterReturned = [c \in Callers |-> FALSE]
  /\ child = [c \in Callers |-> {}]
  /\ admittedBefore = [t \in Tasks |-> {}]
  /\ CacheInit
  /\ proc = "none"
  /\ NoRequests
  /\ NoClient /\ NoLibrary

\* the collector embeds no metric writer: its writer variables stay as they are
NoWriter == WriterInit /\ optOut /\ ~hasHandler
\* outside the collector process no request is served
NoServer == proc = "none" /\ NoRequests
CollectorInit == NoWriter /\ CacheInit /\ NoServer /\ NoClient /\ NoLibrary
CollectorLoadedInit == NoWriter /\ CacheLoadedInit /\ NoServer /\ NoClient /\ NoLibrary
HandlerInit == NoWriter /\ CacheAnyInit /\ proc = "none" /\ NoRequests /\ NoClient /\ NoLibrary
RealMainInit == NoWriter /\ CacheInit /\ proc = "starting" /\ NoRequests /\ NoClient /\ NoLibrary

Init == WriterInit /\ CacheInit /\ NoServer /\ NoClient /\ NoLibrary

WriterSpec == Init /\ [][WriterNext]_vars
CacheSpec == CollectorInit /\ [][CacheNext]_vars
CacheOverlapSpec == CollectorLoadedInit /\ [][CacheOverlapNext]_vars
HandlerSpec == HandlerInit /\ [][HandlerNext]_vars
RealMainSpec == RealMainInit /\ [][RealMainNext]_vars
ServingInit == NoWriter /\ CacheLoadedInit /\ proc = "serving" /\ NoRequests /\ NoClient /\ NoLibrary
ServingSpec == ServingInit /\ [][ServingNext]_vars
\* the object-level cache, from an empty MetricsDB
PointerInit ==
  /\ NoWriter /\ CacheInit /\ NoServer /\ NoClient
  /\ heap = EmptyHeap
  /\ NoUpdater
PointerSpec == PointerInit /\ [][PointerNext]_vars
\* the version check, from any state of the local version cache
UpdaterInit ==
  /\ NoWriter /\ CacheInit /\ NoServer /\ NoClient
  /\ NoPointers
  /\ now = 0
  /\ dataFile \in {NoData, CorruptData, Data(0)}
  /\ check = IdleCheck
  /\ asyncFn = IdleAsync
UpdaterSpec == UpdaterInit /\ [][UpdaterNext]_vars
NewSpec == NewInit /\ [][NewNext]_vars
WriteCallSpec == WriteCallInit /\ [][WriteCallNext]_vars
\* every step of a call that has begun is taken: the goroutine is scheduled, Do
\* returns (at the latest when the 5 s timeout of its context fires) and the error
\* handler returns
WriteCallFairSpec == WriteCallSpec /\ WF_vars(CallStep)

\* the metric writer when the error handler may call Close
WriterCallbackNext ==
  \/ \E c \in Callers : CallWriteMetric(c)
  \/ \E c \in Callers : CallWriteMetricAsync(c)
  \/ \E p \in Procs : WMTryRLock(p)
  \/ \E p \in Procs : WMCheckOptOut(p)
  \/ \E p \in Procs : WMHTTPDone(p)
  \/ \E c \in Callers : WMATryRLock(c)
  \/ \E c \in Callers : WMAAdmit(c)
  \/ \E c \in Callers : WMAReturn(c)
  \/ \E t \in Tasks : TaskStart(t)
  \/ \E t \in Tasks : HandlerCallsClose(t)
  \/ \E t \in Tasks : TaskHandlerReturn(t)
  \/ \E t \in Tasks : TaskDone(t)
  \/ \E cl \in Closers : CallClose(cl)
  \/ \E cl \in AllCloses : CloseLockAnnounce(cl)
  \/ \E cl \in AllCloses : CloseLockAcquire(cl)
  \/ \E cl \in AllCloses : CloseCheckOptOut(cl)
  \/ \E cl \in AllCloses : CloseWait(cl)

WriterCallbackSpec == Init /\ [][WriterCallbackNext]_vars

\* the steps of a call in progress, per goroutine (starting a call is not one)
CallerStep(c) ==
  WMTryRLock(c) \/ WMCheckOptOut(c) \/ WMHTTPDone(c) \/ WMATryRLock(c)
    \/ WMAAdmit(c) \/ WMAReturn(c)
TaskStep(t) ==
  TaskStart(t) \/ WMTryRLock(t) \/ WMCheckOptOut(t) \/ WMHTTPDone(t)
    \/ TaskHandlerReturn(t) \/ TaskDone(t)
CloserStep(cl) ==
  CloseLockAnnounce(cl) \/ CloseLockAcquire(cl) \/ CloseCheckOptOut(cl)
    \/ CloseWait(cl)

\* Scheduling: the Go runtime eventually runs every runnable goroutine, so every
\* step inside a call that has started is taken once it stays possible; every HTTP
\* call in flight ends (the 5 s context timeout) and the error handler returns.
\* Nothing obliges the application to start a call.
WriterFairness ==
  /\ \A c \in Callers : WF_vars(CallerStep(c))
  /\ \A t \in Tasks : WF_vars(TaskStep(t))
  /\ \A cl \in Closers : WF_vars(CloserStep(cl))

WriterFairSpec == WriterSpec /\ WriterFairness

\* the same scheduling, and the Close an error handler called is run as well
WriterCallbackFairSpec ==
  /\ WriterCallbackSpec
  /\ WriterFairness
  /\ \A t \in Tasks : WF_vars(CloserStep(HandlerClose(t)))

(***************************************************************************)
(* Properties of the metric writer.                                        *)
(***************************************************************************)
\* a task's WriteMetric has returned to the goroutine of WriteMetricAsync
TaskWriteReturned(t) == pc[t] \in {"handler", "done"}

\* C1: every WriteMetricAsync that registered its task and returned before any
\* Close() was invoked sends its HTTP POST: once the task's write has returned,
\* the POST was issued; the write was not turned into a silent no-op.
C1_AdmittedWriteIsFlushed ==
  \A t \in Tasks :
    (TaskWriteReturned(t) /\ admittedBefore[t] = Closers) => sent[t]

\* C2: when a Close() has returned, the WaitGroup counter is zero and every task
\* admitted before that Close() was invoked has finished.
C2_CloseAwaitsAdmittedTasks ==
  \A cl \in Closers :
    clpc[cl] = "returned" =>
      /\ asyncRunners = 0
      /\ \A t \in Tasks : cl \in admittedBefore[t] => pc[t] = "free"

\* a Close() has returned after a task admitted before its invocation finished
C2_Witness ==
  \E cl \in Closers, t \in Tasks :
    clpc[cl] = "returned" /\ cl \in admittedBefore[t] /\ pc[t] = "free"

\* C3: a WriteMetric or WriteMetricAsync call that starts while a Close() holds or
\* awaits the exclusive lock issues no HTTP request, spawns no task and returns
\* without error.
C3_NoWriteOnceCloseBegun ==
  \A c \in Callers :
    afterBegun[c] =>
      /\ ~sent[c]
      /\ pc[c] \notin {"wm_http", "wma_ret"}
      /\ ret[c] # "err"

\* a call that started while a Close() held or awaited the lock has returned nil
C3_Witness ==
  \E c \in Callers : afterBegun[c] /\ pc[c] = "idle" /\ ret[c] = "nil"

\* C4: once a Close() has returned the writer is opted out and stays so: every call
\* that starts afterwards issues no HTTP request and spawns no task.
C4_PostCloseSilence ==
  /\ CloseReturned => optOut
  /\ \A c \in Callers :
       afterReturned[c] => (~sent[c] /\ pc[c] \notin {"wm_http", "wma_ret"})

\* a call that started after a Close() had returned has itself returned
C4_Witness ==
  \E c \in Callers : afterReturned[c] /\ pc[c] = "idle" /\ ret[c] = "nil"

UpdateReturned(u) == upd[u].pc = "idle" /\ upd[u].res \in {"nil", "err"}

\* the cache held an entry for app a when u called Update
CachedBefore(u, a) == ~upd[u].before.isNil /\ a \in DOMAIN upd[u].before.apps

\* C6: a lookup reads one generation of the cache: the map GetAllowedMetrics
\* indexes is the map its nil check read, whole, whatever Update does meanwhile;
\* no swap happens between the two reads.
C6_LookupReadsOneGeneration ==
  \A p \in DBProcs :
    get[p].pc = "index" => (~appsNil /\ apps = get[p].seen)

\* a handler's lookup is between its two reads of db.apps while an Update that
\* built a different map is waiting for the write lock
C6_Witness ==
  \E p \in Readers, u \in Updaters :
    /\ get[p].pc = "index"
    /\ upd[u].pc = "lockWait"
    /\ upd[u].newDefs # apps

\* C7: an Update whose manifest fetch failed has returned an error and left the
\* cache as it was when the Update was called.
C7_ManifestFailureKeepsCache ==
  upd[Scheduler].res = "err" =>
    /\ upd[Scheduler].pc = "idle"
    /\ apps = upd[Scheduler].before.apps
    /\ appsNil = upd[Scheduler].before.isNil

\* an Update has failed on the manifest while the cache held definitions
C7_Witness ==
  /\ upd[Scheduler].res = "err"
  /\ upd[Scheduler].pc = "idle"
  /\ ~appsNil
  /\ apps # EmptyMap

\* C8: after an Update has returned without error, an app whose fetch failed in
\* that Update and that the cache held before keeps exactly its prior entry, and
\* every app whose fetch succeeded has the list that was fetched.
C8_FailedFetchKeepsPriorEntry ==
  (upd[Scheduler].pc = "idle" /\ upd[Scheduler].res = "nil") =>
    \A a \in Apps :
      /\ (upd[Scheduler].outcome[a] = "fail" /\ CachedBefore(Scheduler, a)) =>
           (a \in DOMAIN apps /\ apps[a] = upd[Scheduler].before.apps[a])
      /\ upd[Scheduler].outcome[a] = "ok" =>
           (a \in DOMAIN apps
              /\ apps[a] = NewAppMetrics(a, upd[Scheduler].fresh[a]))

\* an Update has kept the prior entry of one app and installed a different, freshly
\* fetched list for another app
C8_Witness ==
  /\ upd[Scheduler].pc = "idle"
  /\ upd[Scheduler].res = "nil"
  /\ \E a, b \in Apps :
       /\ a # b
       /\ upd[Scheduler].outcome[a] = "fail"
       /\ CachedBefore(Scheduler, a)
       /\ upd[Scheduler].before.apps[a].Allowed # {}
       /\ upd[Scheduler].outcome[b] = "ok"
       /\ CachedBefore(Scheduler, b)
       /\ apps[b] # upd[Scheduler].before.apps[b]

\* C9: an Update in which the fetch of an app failed while the cache held no entry
\* for that app returns no error, and the app is absent from the cache afterwards.
C9_FailedFetchWithoutPriorIsAbsent ==
  \A a \in Apps :
    (UpdateReturned(Scheduler)
       /\ upd[Scheduler].outcome[a] = "fail"
       /\ ~CachedBefore(Scheduler, a)) =>
      (upd[Scheduler].res = "nil" /\ ~appsNil /\ a \notin DOMAIN apps)

\* an Update has returned with one app absent after its failed fetch, next to an
\* app that was loaded
C9_Witness ==
  /\ UpdateReturned(Scheduler)
  /\ \E a, b \in Apps :
       /\ upd[Scheduler].outcome[a] = "fail"
       /\ ~CachedBefore(Scheduler, a)
       /\ a \notin DOMAIN apps
       /\ b \in DOMAIN apps

\* the entries that were in the cache at some time during u's Update: those
\* cached when it was called and those another Update installed
CachedEntries(u, a) ==
  {m[a] : m \in {n \in {upd[u].before.apps} \cup {upd[v].newDefs : v \in Updaters \ {u}} :
                   a \in DOMAIN n}}

\* C10: once the overlapping Update calls have all returned, the cache is the whole
\* map one of them built, and each of its entries is a list that call fetched or an
\* entry that was cached before; if every call failed, the cache is untouched.
C10_OverlapKeepsCompleteMap ==
  (\A u \in Updaters : UpdateReturned(u)) =>
    \/ \E u \in Updaters :
         /\ upd[u].res = "nil"
         /\ apps = upd[u].newDefs
         /\ \A a \in DOMAIN apps :
              \/ a \in DOMAIN upd[u].fresh /\ apps[a] = NewAppMetrics(a, upd[u].fresh[a])
              \/ apps[a] \in CachedEntries(u, a)
    \/ /\ \A u \in Updaters : upd[u].res = "err"
       /\ \A u \in Updaters : apps = upd[u].before.apps

\* two Update calls have overlapped and returned: the one that swapped last was
\* called before the other's swap and has carried forward an entry that the other
\* installed
C10_Witness ==
  \E u, v \in Updaters :
    /\ u # v
    /\ \A w \in Updaters : UpdateReturned(w) /\ upd[w].res = "nil"
    /\ apps = upd[u].newDefs
    /\ apps # upd[v].newDefs
    /\ \E a \in DOMAIN apps :
         /\ a \notin DOMAIN upd[u].before.apps
         /\ a \notin DOMAIN upd[u].fresh
         /\ upd[u].outcome[a] = "fail"
         /\ apps[a] = upd[v].newDefs[a]

\* the app ids of the manifest u's Update loaded: those it fetched at least once
ManifestApps(u) == {a \in Apps : upd[u].outcome[a] # "none"}
\* the app ids all of whose fetches failed while the cache held no entry for them
FailedWithoutPrior(u) ==
  {a \in Apps : upd[u].outcome[a] = "fail" /\ ~CachedBefore(u, a)}
\* u's Update has returned nil
UpdateSucceeded(u) == upd[u].pc = "idle" /\ upd[u].res = "nil"

\* C11: after an Update that returned no error the cached app ids are the
\* manifest's ids minus those whose fetch failed with no prior entry; an app that
\* was cached before and is not in the manifest is gone, and its removal is logged.
C11_CachedIdsFollowManifest ==
  UpdateSucceeded(Scheduler) =>
    /\ ~appsNil
    /\ DOMAIN apps = ManifestApps(Scheduler) \ FailedWithoutPrior(Scheduler)
    /\ \A a \in Apps :
         (CachedBefore(Scheduler, a) /\ a \notin ManifestApps(Scheduler)) =>
           (a \notin DOMAIN apps /\ a \in diffLog.removed)

\* an Update has dropped an app that was cached and is not in the new manifest,
\* next to an app it loaded
C11_Witness ==
  /\ UpdateSucceeded(Scheduler)
  /\ \E a, b \in Apps :
       /\ CachedBefore(Scheduler, a)
       /\ a \notin ManifestApps(Scheduler)
       /\ a \notin DOMAIN apps
       /\ b \in DOMAIN apps

\* the names of the list fetched last for app a in u's Update
FetchedNames(u, a) == {upd[u].fresh[a][i] : i \in DOMAIN upd[u].fresh[a]}

\* C12: after an Update in which the fetch of an app succeeded, a metric name is
\* allowed for the app exactly when it is in the fetched response: the entry is
\* replaced, a name only the previous generation allowed is no longer allowed.
C12_FetchedListReplacesEntry ==
  UpdateSucceeded(Scheduler) =>
    \A a \in Apps :
      upd[Scheduler].outcome[a] = "ok" =>
        /\ a \in DOMAIN apps
        /\ \A n \in ReqNames :
             MetricAllowed(apps[a], n) <=> n \in FetchedNames(Scheduler, a)

\* an Update has replaced an entry, and a name the previous entry allowed is not
\* allowed any more, while a new one is
C12_Witness ==
  /\ UpdateSucceeded(Scheduler)
  /\ \E a \in Apps, n, m \in MetricNames :
       /\ upd[Scheduler].outcome[a] = "ok"
       /\ CachedBefore(Scheduler, a)
       /\ n \in upd[Scheduler].before.apps[a].Allowed
       /\ ~MetricAllowed(apps[a], n)
       /\ MetricAllowed(apps[a], m)

\* C13: a step of GetAllowedMetrics changes neither the cache nor any Update (it
\* fetches nothing); when it returns, it has found the app exactly when the cache is
\* loaded and holds the app, and then returns the cached entry.
C13_LookupIsPure ==
  [][\A p \in Readers :
       /\ get'[p] # get[p] => (apps' = apps /\ appsNil' = appsNil /\ upd' = upd)
       /\ (get[p].pc \in {"nilcheck", "index"} /\ get'[p].pc = "idle") =>
            /\ get'[p].found = (~appsNil /\ get[p].app \in DOMAIN apps)
            /\ get'[p].found => get'[p].entry = apps[get[p].app]]_vars

\* a lookup has returned the cached entry of an app
C13_Witness ==
  \E p \in Readers :
    /\ get[p].pc = "idle"
    /\ get[p].found
    /\ get[p].app \in DOMAIN apps
    /\ get[p].entry = apps[get[p].app]
    /\ get[p].entry.Allowed # {}

(***************************************************************************)
(* Properties of the collector process and of the handler.                 *)
(***************************************************************************)
\* C14: no failed fetch, on the first load or on a later tick, ends the collector
\* process.
C14_FetchFailureNeverExits == proc # "exited"

\* handler p has finished a request whose body decoded to a report
ReportHandled(p) == req[p].pc = "idle" /\ req[p].body = "ok"
\* the "metric received" records in p's log
ReceivedRecords(p) ==
  {i \in DOMAIN req[p].log : req[p].log[i].msg = "metric received"}
\* how often record r is in p's log
CountIn(p, r) == Cardinality({i \in DOMAIN req[p].log : req[p].log[i] = r})
\* the cache holds the app of p's report
AppKnown(p) == ~appsNil /\ req[p].report.appId \in DOMAIN apps

\* C15: while the cache is empty (never loaded, or loaded with no app) a report
\* never reaches the metrics loop and emits no "metric received" record; when it
\* has been handled the one response is 404.
C15_EmptyCacheAnswers404 ==
  (appsNil \/ apps = EmptyMap) =>
    \A p \in Readers :
      req[p].body = "ok" =>
        /\ req[p].pc # "loop"
        /\ ReceivedRecords(p) = {}
        /\ req[p].pc = "idle" => req[p].resp = <<Rendered(404, "error")>>

\* a report with metrics has been answered by a cache that was never loaded
C15_Witness ==
  /\ appsNil
  /\ \E p \in Readers :
       /\ ReportHandled(p)
       /\ req[p].report.metrics # EmptyMap
       /\ req[p].resp = <<Rendered(404, "error")>>

\* C16: when a report of a known app has been handled, the log holds exactly one
\* "metric received" record, with the report's appId, appVersion, installID, the
\* name and the count, for every entry whose name the app allows, and no such
\* record for any other name: a rejected name does not end the processing.
C16_OneRecordPerAllowedMetric ==
  \A p \in Readers :
    (ReportHandled(p) /\ AppKnown(p)) =>
      LET report == req[p].report
          allowed == {n \in DOMAIN report.metrics :
                        n \in apps[report.appId].Allowed}
      IN /\ \A n \in allowed :
              CountIn(p, MetricReceived(report, n, report.metrics[n])) = 1
         /\ Cardinality(ReceivedRecords(p)) = Cardinality(allowed)

\* a report with an allowed and a rejected name has been handled, and the allowed
\* name's record is in the log
C16_Witness ==
  \E p \in Readers :
    /\ ReportHandled(p)
    /\ AppKnown(p)
    /\ \E n, m \in DOMAIN req[p].report.metrics :
         /\ n \in apps[req[p].report.appId].Allowed
         /\ m \notin apps[req[p].report.appId].Allowed
         /\ CountIn(p, MetricReceived(req[p].report, n, req[p].report.metrics[n])) = 1

\* C17: a report of a known app is answered once, with 202 and the message "ok",
\* however many of its metrics were rejected.
C17_KnownAppAnswers202 ==
  \A p \in Readers :
    (ReportHandled(p) /\ AppKnown(p)) => req[p].resp = <<Rendered(202, "ok")>>

\* a report all of whose metrics were rejected has been answered 202
C17_Witness ==
  \E p \in Readers :
    /\ ReportHandled(p)
    /\ AppKnown(p)
    /\ req[p].report.metrics # EmptyMap
    /\ ReceivedRecords(p) = {}
    /\ req[p].resp = <<Rendered(202, "ok")>>

\* C18: a report whose app is not in the cache never reaches the metrics loop; when
\* it has been handled the one response is 404 and the log holds the warning and no
\* "metric received" record.
C18_UnknownAppAnswers404 ==
  \A p \in Readers :
    (req[p].body = "ok" /\ ~AppKnown(p)) =>
      /\ req[p].pc # "loop"
      /\ req[p].pc = "idle" =>
           /\ req[p].resp = <<Rendered(404, "error")>>
           /\ req[p].log = <<HandlingRequest, UnknownApp>>

\* a report of an unknown app has been answered 404 although it carries a name
\* that another app allows
C18_Witness ==
  \E p \in Readers :
    /\ ReportHandled(p)
    /\ ~AppKnown(p)
    /\ ~appsNil
    /\ \E b \in DOMAIN apps, n \in DOMAIN req[p].report.metrics : n \in apps[b].Allowed
    /\ req[p].resp = <<Rendered(404, "error")>>

\* the warning for a metric that is not allowed, as a report of app id logs it
UnknownMetricWarning(id) == [msg |-> "received unknown metric for app", appID |-> id]

\* C19: every warning for a metric that is not allowed holds the message and the
\* report's appId and nothing else, and a handled report has one such warning per
\* rejected entry: the log does not depend on the rejected names and counts.
C19_WarningCarriesAppIdOnly ==
  \A p \in Readers :
    /\ \A i \in DOMAIN req[p].log :
         req[p].log[i].msg = "received unknown metric for app" =>
           req[p].log[i] = UnknownMetricWarning(req[p].report.appId)
    /\ (ReportHandled(p) /\ AppKnown(p)) =>
         CountIn(p, UnknownMetricWarning(req[p].report.appId)) =
           Cardinality({n \in DOMAIN req[p].report.metrics :
                          n \notin apps[req[p].report.appId].Allowed})

\* a report with a rejected name has been handled and the warning is in the log
C19_Witness ==
  \E p \in Readers :
    /\ ReportHandled(p)
    /\ AppKnown(p)
    /\ "z" \in DOMAIN req[p].report.metrics
    /\ CountIn(p, UnknownMetricWarning(req[p].report.appId)) = 1

\* C20: a request whose decoding failed has exactly one response, the decode
\* error's; the handler has returned, no lookup runs for it and its log holds no
\* "metric received" record.
C20_DecodeFailureEndsRequest ==
  \A p \in Readers :
    req[p].body \in DecodeFailures =>
      /\ req[p].pc = "idle"
      /\ req[p].resp = <<Rendered(DecodeStatus(req[p].body), "error")>>
      /\ get[p].pc = "idle"
      /\ ReceivedRecords(p) = {}
      /\ req[p].log = <<HandlingRequest>>

\* a request over the size limit has been answered 413 by a loaded cache
C20_Witness ==
  \E p \in Readers :
    /\ req[p].body = "tooLarge"
    /\ req[p].resp = <<Rendered(413, "error")>>
    /\ ~appsNil
    /\ apps # EmptyMap

(***************************************************************************)
(* Properties of the request decoding.                                     *)
(***************************************************************************)
\* the handler is through with the request in hand (it returned or it panicked)
RequestEnded(p) == req[p].pc = "idle" /\ req[p].body # "none"

\* C21: every request the handler is through with has exactly one response, and
\* its status is the one of the first failing check: 415 for a wrong content type,
\* 413 for a body over 2 MiB, 400 for an empty, malformed or wrong-type body, 404
\* for an unknown app, 202 otherwise. (A body with several defects may be answered
\* by the status of any of them, the JSON value null by 404 or 202.)
C21_StatusOfFirstFailingCheck ==
  \A p \in Readers :
    RequestEnded(p) =>
      LET f == req[p].form
          tooLarge == IF f.over # "no" THEN {413} ELSE {}
          malformed == IF \/ f.value \in {"empty", "truncated", "other", "syntax",
                                           "wrongType"}
                          \/ f.tail \in {"closer", "data"}
                         THEN {400} ELSE {}
          statuses == IF ~f.ctype THEN {415}
                      ELSE IF tooLarge \cup malformed # {} THEN tooLarge \cup malformed
                      ELSE IF f.value = "null" THEN {404, 202}
                      ELSE IF AppKnown(p) THEN {202} ELSE {404}
      IN  /\ Len(req[p].resp) = 1
          /\ req[p].resp[1].status \in statuses

\* C22: a request whose body holds a complete report followed by anything but
\* white space is answered with one client error (4xx) and none of its metrics is
\* logged as received.
C22_TrailingDataIsRejected ==
  \A p \in Readers :
    (/\ RequestEnded(p)
     /\ req[p].form.value = "report"
     /\ req[p].form.tail \in {"closer", "data"}) =>
      /\ Len(req[p].resp) = 1
      /\ req[p].resp[1].status \in 400..499
      /\ ReceivedRecords(p) = {}

\* C23: a JSON request whose body is larger than 2 MiB and holds one report and
\* white space is answered 413 and none of its metrics is logged as received,
\* whether the bytes over the limit are in the report or in the white space
\* after it.
C23_OversizedBodyAnswers413 ==
  \A p \in Readers :
    (/\ RequestEnded(p)
     /\ req[p].form.ctype
     /\ req[p].form.value = "report"
     /\ req[p].form.tail \in {"end", "space"}
     /\ req[p].form.over # "no") =>
      /\ req[p].resp = <<Rendered(413, "error")>>
      /\ ReceivedRecords(p) = {}

(***************************************************************************)
(* Properties of the report's encoding and of one write.                   *)
(***************************************************************************)
\* every string of the report is valid UTF-8
ValidReport(r) ==
  /\ ValidUTF8(r.appId)
  /\ ValidUTF8(r.appVersion)
  /\ ValidUTF8(r.installID)
  /\ \A n \in DOMAIN r.metrics : ValidUTF8(n)

\* C24 as stated: what the collector decodes from the body WriteMetric encoded is
\* the client's report (app id, version, install id, name and count), for every
\* name and every count.
C24_RoundTripEveryName ==
  call.decoded.done => call.decoded.ok /\ call.decoded.report = call.report

\* C24: what the collector decodes from the body WriteMetric encoded is the
\* client's report (app id, version, install id, name and count), for every
\* count and for every report whose strings are valid UTF-8.
C24_RoundTripValidUTF8 ==
  (call.decoded.done /\ ValidReport(call.report)) =>
    call.decoded.ok /\ call.decoded.report = call.report

\* the collector has decoded a report whose name holds a character the encoder
\* escapes and whose count is the smallest there is
C24_Witness ==
  /\ call.decoded.done
  /\ ValidReport(call.report)
  /\ \E n \in DOMAIN call.report.metrics :
       /\ \E i \in DOMAIN n : n[i] = "<"
       /\ call.report.metrics[n] = MinInt64

\* C25: while the writer is opted out no step of WriteMetric or WriteMetricAsync
\* issues an HTTP request, makes a call's result an error, starts a goroutine or
\* calls the error handler.
C25_OptedOutWritesNothing ==
  [][optOut =>
       \A p \in Procs :
         /\ sent'[p] => sent[p]
         /\ ret'[p] = "err" => ret[p] = "err"
         /\ pc'[p] \in {"go", "handler", "wm_http"} => pc'[p] = pc[p]]_vars

\* a WriteMetric on a client that was opted out from the start holds the read
\* lock and is about to look at the flag
C25_Witness ==
  /\ optOut
  /\ \A cl \in Closers : clpc[cl] = "idle"
  /\ \E c \in Callers : pc[c] = "wm_opt"

\* WriteMetric has returned to its caller
CallReturned == call.pc \in {"handler", "done", "over"}
\* the response has a status outside 200-299
BadStatus(reply) == reply.kind = "response" /\ reply.status \notin 200..299

C28_AsyncNeverWaits ==
  \A c \in Callers :
    /\ pc[c] \in {"wma_try", "wma_opt", "wma_ret"} => ENABLED CallerStep(c)
    /\ pc[c] = "wma_ret" => ENABLED (WMAReturn(c) /\ pc'[c] = "idle")
    /\ pc[c] = "wma_opt" =>
         ENABLED (WMAAdmit(c) /\ pc'[c] \in {"wma_ret", "idle"})
    /\ pc[c] = "wma_try" =>
         ENABLED (WMATryRLock(c) /\ pc'[c] \in {"wma_opt", "idle"})

\* WriteMetricAsync is called while a Close has announced itself and waits for
\* the lock
C28_Witness ==
  /\ mut.pending
  /\ \E c \in Callers : pc[c] = "wma_try"

C30_OneInstallID ==
  made # <<>> =>
    /\ \A i \in DOMAIN made : made[i] = made[1]
    /\ loadInstallID(idFile) = [err |-> FALSE, id |-> made[1]]


(***************************************************************************)
(* The read lock and the HTTP call; Close against a synchronous write.     *)
(***************************************************************************)
\* the calls that hold the read lock for admission only: past TryRLock and not
\* yet past the flag check or the return of WriteMetricAsync
InAdmission == {p \in Procs : pc[p] \in {"wm_opt", "wma_opt", "wma_ret"}}

\* C33: a write has released the shared lock before it starts its HTTP call, so
\* while a call is in progress the only holders of the shared lock are the calls
\* still in admission.
C33_NoSharedLockDuringHTTP ==
  (\E p \in Procs : pc[p] = "wm_http") => mut.readers = Cardinality(InAdmission)

\* C37: while a synchronous WriteMetric that passed admission performs its HTTP
\* call, no Close holds the write lock, waits on the counter or has returned.
C37_CloseAwaitsSyncWrite ==
  \A c \in Callers :
    pc[c] = "wm_http" =>
      \A cl \in Closers : clpc[cl] \notin {"locked", "wait", "returned"}

\* a synchronous write is in its HTTP call, no task is registered, and a Close
\* has announced itself and waits for the lock
C37_Witness ==
  \E c \in Callers, cl \in Closers :
    /\ pc[c] = "wm_http"
    /\ clpc[cl] = "lockWait"
    /\ asyncRunners = 0


(***************************************************************************)
(* Close called more than once.                                            *)
(***************************************************************************)
\* a write is in progress: a registered task has not ended, or a synchronous
\* write is in its HTTP call
WriteInFlight == asyncRunners > 0 \/ \E c \in Callers : pc[c] = "wm_http"

\* another Close than cl has been invoked and has at least announced itself
OtherCloseBegun(cl) ==
  \E o \in Closers \ {cl} : clpc[o] \in {"lockWait", "locked", "wait", "returned"}

C35_CallbackCloseReturns ==
  \A t \in Tasks : (pc[t] = "in_close") ~> (clpc[HandlerClose(t)] = "returned")


(***************************************************************************)
(* The cache's write lock and the fetches; overlapping Updates.            *)
(***************************************************************************)
\* the lookups that hold the read lock
HoldingRLock == {p \in DBProcs : get[p].pc \in {"nilcheck", "index"}}

\* C38: the write lock is announced and held only by an Update whose fetches are
\* all done and which has only the map swap left; the read lock is held only
\* inside GetAllowedMetrics; so a lookup that waits for the lock waits for no
\* fetch.
C38_WriteLockOnlyForSwap ==
  /\ \A u \in Updaters :
       upd[u].pc \in {"manifest", "fetch", "fallback"} => dbMuW # u
  /\ dbMu.pending =>
       /\ dbMuW \in Updaters
       /\ upd[dbMuW].pc = "lockWait"
       /\ upd[dbMuW].todo = <<>>
  /\ dbMu.readers = Cardinality(HoldingRLock)

\* a lookup waits at RLock for an Update that has fetched an allow-list and is at
\* the swap
C38_Witness ==
  \E p \in Readers :
    /\ get[p].pc = "rlock"
    /\ dbMu.pending
    /\ upd[Scheduler].pc = "lockWait"
    /\ \E a \in Apps : upd[Scheduler].outcome[a] = "ok"

\* C36: when an Update whose fetch of app a failed swaps its map in, and the cache
\* holds for a the allow-list another Update fetched and installed, the swap
\* leaves that entry as it is.
C36_NoStaleOverwrite ==
  [][\A u \in Updaters, o \in Updaters, a \in Apps :
       ( /\ u # o
         /\ upd[u].pc = "lockWait" /\ upd'[u].pc = "idle"
         /\ upd[u].outcome[a] = "fail"
         /\ a \in DOMAIN upd[u].newDefs
         /\ upd[o].pc = "idle" /\ upd[o].res = "nil"
         /\ upd[o].outcome[a] = "ok"
         /\ a \in DOMAIN apps
         /\ apps[a] = NewAppMetrics(a, upd[o].fresh[a]) )
       => (a \in DOMAIN apps' /\ apps'[a] = apps[a])]_vars


(***************************************************************************)
(* A request served while the cache is refreshed.                          *)
(***************************************************************************)
\* C39: from the loop on, the handler has done its one lookup, and every record
\* of the loop is the verdict of the value that lookup returned on one of the
\* report's metrics, whatever the cache holds by now.
C39_OneAllowListPerRequest ==
  LET p == Handler
      r == req[p]
  IN
  (r.pc = "loop" \/ (RequestEnded(p) /\ r.resp = <<Rendered(202, "ok")>>))
    => /\ get[p].pc = "idle"
       /\ get[p].found
       /\ get[p].entry.AppID = r.report.appId
       /\ Len(r.log) = 1 + Cardinality((DOMAIN r.report.metrics) \ r.todo)
       /\ \A i \in 2..Len(r.log) :
            \E name \in (DOMAIN r.report.metrics) \ r.todo :
              r.log[i] = LoopRecord(get[p].entry, r.report, name)

\* the handler is in its loop, one metric logged and one to go, and the cache has
\* been swapped since the lookup: it now decides the remaining metric differently
C39_Witness ==
  LET p == Handler
      r == req[p]
  IN
  /\ r.pc = "loop"
  /\ Len(r.log) = 2
  /\ r.report.appId \in DOMAIN apps
  /\ \E name \in r.todo :
       MetricAllowed(apps[r.report.appId], name) # MetricAllowed(get[p].entry, name)


(***************************************************************************)
(* Properties of the AppMetrics objects, the version check and the closure *)
(***************************************************************************)
\* C34: the AppMetrics a lookup returned is never written afterwards: no step
\* changes an object that exists, so the object a handler holds is the value it
\* was when the pointer was returned, whatever Updates have run since.
C34_AllowListNeverModified ==
  /\ [](heap.held.addr # 0 => heap.obj[heap.held.addr] = heap.held.seen)
  /\ [][\A i \in 1..Len(heap.obj) : heap.obj'[i] = heap.obj[i]]_vars

\* a handler holds the AppMetrics of an app for which a later Update has
\* installed a new object that allows other metrics
C34_Witness ==
  /\ heap.held.addr # 0
  /\ heap.held.app \in DOMAIN heap.apps
  /\ heap.apps[heap.held.app] # heap.held.addr
  /\ heap.obj[heap.apps[heap.held.app]].Allowed # heap.held.seen.Allowed

\* C31: a fetch that succeeds leaves the local cache recording the time of the
\* fetch, and it comes at least 24 hours after the successful fetch before it.
C31_OncePerDay ==
  [][(check.pc = "do" /\ check'.pc = "idle" /\ check'.ret.fetched)
       => /\ dataFile' = Data(now)
          /\ check.lastOk >= 0 => now - check.lastOk >= oneDay]_vars

\* C32: when the context was already cancelled as the closure was run, the
\* closure has called the output function not once.
C32_CancelledClosureIsSilent ==
  (asyncFn.closure = "returned" /\ asyncFn.doneAtRun) => asyncFn.outs = <<>>

====
